---- MODULE Spec2Model ----
(***************************************************************************)
(* Fraud-score pipeline: the training extractor, the inference extractor,  *)
(* the trainer, the predictor and the score loader, modelled as state      *)
(* machines over the files and tables they exchange.  Every component has  *)
(* its own specification (SpecLoader, SpecClean, SpecModel, SpecExtract,   *)
(* SpecSplit, SpecInfer); the variables of the other components stay at    *)
(* their initial value.  SpecSplitAndModel runs the split query or the     *)
(* trainer and predictor, SpecEncode the trainer and the predictor on the  *)
(* texts of the extracted files, SpecDated the nightly run of the          *)
(* inference extractor and the score loader.                               *)
(***************************************************************************)
EXTENDS Integers, Sequences, FiniteSets, Bags, TLC

VARIABLES
    \* score loader (load_scores_to_snowflake.py)
    ldPc, ldRows, ids_df, predictions_df, result_df, record_count,
    targetTable, ldRuns, ldArgs, ldYesterday,
    \* the warehouse evaluating the two projections on one record
    clPc, clRecord, clTrainRow, clInferRow,
    \* trainer (training_script.py) and the model directory it writes
    trPc, train_df, val_df, X_train, X_val, trEncoder, trFeatureNames, modelDir,
    \* predictor (inference.py): its globals and its last predict_fn call
    pdPc, pdEncoder, pdFeatureNames, pdInput, pdOut,
    \* the request being served and the response of output_fn
    pdRequest, pdResponse,
    \* training extractor (extract_training_data.py): the source table, the
    \* job's argument, its three counts and the two outputs
    exPc, exTable, exDaysLimit, total_count, train_count, test_count,
    exTrain, exTest, exLog,
    \* the warehouse evaluating the training query twice on one table
    sqPc, sqTable, sqDaysLimit, sqFirst, sqSecond,
    \* inference extractor (extract_inference_data.py): the source table of
    \* the run, its count, its log and the three outputs at the dated location
    ixPc, ixTable, ixRuns, ixCount, ixLog, ixIds, ixFeatures, ixComplete,
    \* one nightly run of the inference extractor followed by the score
    \* loader: what each computed from its arguments and its clock
    dtPc, dtExtractor, dtLoader

loaderVars == << ldPc, ldRows, ids_df, predictions_df, result_df, record_count,
                 targetTable, ldRuns, ldArgs, ldYesterday >>

cleanVars == << clPc, clRecord, clTrainRow, clInferRow >>

trainerVars == << trPc, train_df, val_df, X_train, X_val, trEncoder,
                 trFeatureNames, modelDir >>

predictorVars == << pdPc, pdEncoder, pdFeatureNames, pdInput, pdOut,
                   pdRequest, pdResponse >>

extractVars == << exPc, exTable, exDaysLimit, total_count, train_count,
                 test_count, exTrain, exTest, exLog >>

splitVars == << sqPc, sqTable, sqDaysLimit, sqFirst, sqSecond >>

inferVars == << ixPc, ixTable, ixRuns, ixCount, ixLog, ixIds, ixFeatures,
               ixComplete >>

datedVars == << dtPc, dtExtractor, dtLoader >>

vars == << loaderVars, cleanVars, trainerVars, predictorVars, extractVars,
           splitVars, inferVars, datedVars >>

\* What each component leaves alone: the variables of the others.
notLoader == << cleanVars, trainerVars, predictorVars, extractVars, splitVars,
               inferVars, datedVars >>
notClean == << loaderVars, trainerVars, predictorVars, extractVars, splitVars,
              inferVars, datedVars >>
notTrainer == << loaderVars, cleanVars, predictorVars, extractVars, splitVars,
                inferVars, datedVars >>
notPredictor == << loaderVars, cleanVars, extractVars, splitVars, inferVars,
                   datedVars, trPc, train_df, val_df, X_train, X_val, trEncoder,
                   trFeatureNames >>
notExtract == << loaderVars, cleanVars, trainerVars, predictorVars, splitVars,
                inferVars, datedVars >>
notSplit == << loaderVars, cleanVars, trainerVars, predictorVars, extractVars,
              inferVars, datedVars >>
notInfer == << loaderVars, cleanVars, trainerVars, predictorVars, extractVars,
              splitVars, datedVars >>
notDated == << loaderVars, cleanVars, trainerVars, predictorVars, extractVars,
              splitVars, inferVars >>

\* ---- generic helpers ----
Range(s) == { s[i] : i \in 1..Len(s) }

NoDup(s) == \A i, j \in 1..Len(s) : i # j => s[i] # s[j]

\* ---- Feature definitions of src/glue_scripts/extract_training_data.py ----
TrainExtract_TARGET ==
    "IPQS_DEVICE_FP_FRAUD_SCORE"
TrainExtract_BOOLEAN_FEATURES ==
    << "IP_API_HOSTING",
       "IP_API_MOBILE",
       "IP_API_PROXY" >>
TrainExtract_CATEGORICAL_FEATURES ==
    << "IP_API_CITY",
       "IP_API_COUNTRY",
       "IP_API_COUNTRY_CODE",
       "IP_API_ORG",
       "IP_API_REGION",
       "IP_API_STATUS",
       "IP_API_TIMEZONE",
       "BROWSERNAME",
       "BROWSERVERSION",
       "DEVICECATEGORY",
       "DEVICETYPE",
       "OPERATINGSYSTEM",
       "OPERATINGSYSTEMVERSION",
       "PROPERTY_NAME",
       "PUBLISHER_NAME",
       "UTM_CONTENT",
       "UTM_TERM",
       "UTM_MEDIUM",
       "UTM_SOURCE",
       "VISITOR_TYPE",
       "DOMAIN",
       "STATE",
       "EMAIL_VERIFICATION_RESPONSE" >>
TrainExtract_NUMERIC_FEATURES ==
    << "IP_API_LATITUDE",
       "IP_API_LONGITUDE",
       "VISIT_COUNT_FORM_COMPLETED_MEASURE",
       "VISIT_COUNT_FORM_STARTED_MEASURE",
       "VISIT_COUNT_VISIT_TO_PAGE_1_MEASURE",
       "VISIT_COUNT_PAGE_1_TO_PAGE_2_MEASURE",
       "VISIT_COUNT_PAGE_2_TO_PAGE_3_MEASURE",
       "SECONDS_SPENT_FORM_MEASURE",
       "SECONDS_SPENT_FORM_COMPLETE_MEASURE",
       "SECONDS_SPENT_PAGE_1_TO_2_MEASURE",
       "SECONDS_SPENT_PAGE_2_TO_3_MEASURE",
       "SECONDS_SPENT_VISIT_TO_PAGE_1_MEASURE",
       "SECONDS_SPENT_ZAN_PRIMARY_MEASURE",
       "SECONDS_SPENT_ZAN_PRIMARY_COMPLETE_MEASURE",
       "SECONDS_SPENT_ZAN_PRIMARY_INCOMPLETE_MEASURE",
       "VISIT_COUNT_ZAN_COMPLETED_LESS_THAN_7_SECONDS_MEASURE",
       "VISIT_COUNT_ZAN_PRIMARY_COMPLETE_MEASURE",
       "VISIT_COUNT_ZAN_PRIMARY_LOAD_MEASURE",
       "VISIT_COUNT_ZAN_SPENT_MORE_THAN_5_MINS_MEASURE",
       "LTV_PIXEL_CAMPAIGN_CLICKS_MEASURE",
       "LTV_PIXEL_CAMPAIGN_IMPRESSIONS_MEASURE",
       "LTV_PIXEL_PURCHASE_COUNT_MEASURE",
       "LTV_PIXEL_REVENUE_MEASURE",
       "LTV_PIXEL_ADVERTISER_COST_MEASURE",
       "FICTITIOUS_CHARACTERS_NAME_MEASURE",
       "FLAGGED_ADDRESS_MEASURE",
       "FLAGGED_NAME_MEASURE",
       "FNLN_EMAIL_STRING_MEASURE",
       "IPQS_FLAGGED_LOCATION_MEASURE",
       "MISSING_ADDRESS_NUMBER_MEASURE",
       "MISSING_STREET_TYPE_MEASURE",
       "VISITS_WITH_PII_COMPLETE_VISITS",
       "RECYCLED_IP_ADDRESS_MEASURE",
       "SINGLE_LETTER_STRING_NAME_MEASURE",
       "THREE_LETTER_STRING_NAME_MEASURE",
       "TWO_LETTER_STRING_NAME_MEASURE",
       "THREE_LETTER_STRING_LEFT_RIGHT_NAME_MEASURE",
       "VULGAR_WORDS_NAME_MEASURE",
       "VISIT_COUNT_ZAN_PRIMARY_INCOMPLETE_MEASURE",
       "POSITION_1_ANSWERS_MEASURE",
       "CAMPAIGN_CLICKS_MEASURE",
       "CAMPAIGN_CONVERSIONS_MEASURE",
       "CAMPAIGN_IMPRESSIONS_MEASURE",
       "CPA_CLICKS_MEASURE",
       "CPA_CONVERSIONS_MEASURE",
       "CPA_IMPRESSIONS_MEASURE",
       "CPA_REVENUE_MEASURE",
       "CPC_CONVERSIONS_MEASURE",
       "CPC_IMPRESSIONS_MEASURE",
       "CPC_REVENUE_MEASURE",
       "CPL_CONVERSIONS_MEASURE",
       "CPL_IMPRESSIONS_MEASURE",
       "CPL_REVENUE_MEASURE",
       "TOTAL_GROSS_REVENUE_MEASURE",
       "LAST_POSITION_ANSWERS_MEASURE",
       "TOTAL_NET_REVENUE_MEASURE",
       "PREPING_SCORE_1_PRIMARY_VISITS",
       "PREPING_SCORE_2_PRIMARY_VISITS",
       "PREPING_SCORE_3_PRIMARY_VISITS",
       "PREPING_SCORE_4_PRIMARY_VISITS",
       "PREPING_SCORE_5_PRIMARY_VISITS",
       "PRIMARY_GROSS_REVENUE_MEASURE",
       "QUESTIONS_ANSWERED_MEASURE",
       "QUESTIONS_IMPRESSED_MEASURE",
       "QUESTIONS_IMPRESSED_FOR_POSITION_RATE_MEASURE",
       "ZAN_SECONDARY_END_OF_PLACEMENT_VISITS_MEASURE",
       "QUESTIONS_ANSWERED_FOR_POSITION_RATE_MEASURE",
       "ZAN_SECONDARY_PLACEMENT_VISITS_MEASURE",
       "SECONDARY_NET_REVENUE_MEASURE" >>

\* ---- Feature definitions of src/glue_scripts/extract_inference_data.py ----
InferExtract_TARGET ==
    "IPQS_DEVICE_FP_FRAUD_SCORE"
InferExtract_BOOLEAN_FEATURES ==
    << "IP_API_HOSTING",
       "IP_API_MOBILE",
       "IP_API_PROXY" >>
InferExtract_CATEGORICAL_FEATURES ==
    << "IP_API_CITY",
       "IP_API_COUNTRY",
       "IP_API_COUNTRY_CODE",
       "IP_API_ORG",
       "IP_API_REGION",
       "IP_API_STATUS",
       "IP_API_TIMEZONE",
       "BROWSERNAME",
       "BROWSERVERSION",
       "DEVICECATEGORY",
       "DEVICETYPE",
       "OPERATINGSYSTEM",
       "OPERATINGSYSTEMVERSION",
       "PROPERTY_NAME",
       "PUBLISHER_NAME",
       "UTM_CONTENT",
       "UTM_TERM",
       "UTM_MEDIUM",
       "UTM_SOURCE",
       "VISITOR_TYPE",
       "DOMAIN",
       "STATE",
       "EMAIL_VERIFICATION_RESPONSE" >>
InferExtract_NUMERIC_FEATURES ==
    << "IP_API_LATITUDE",
       "IP_API_LONGITUDE",
       "VISIT_COUNT_FORM_COMPLETED_MEASURE",
       "VISIT_COUNT_FORM_STARTED_MEASURE",
       "VISIT_COUNT_VISIT_TO_PAGE_1_MEASURE",
       "VISIT_COUNT_PAGE_1_TO_PAGE_2_MEASURE",
       "VISIT_COUNT_PAGE_2_TO_PAGE_3_MEASURE",
       "SECONDS_SPENT_FORM_MEASURE",
       "SECONDS_SPENT_FORM_COMPLETE_MEASURE",
       "SECONDS_SPENT_PAGE_1_TO_2_MEASURE",
       "SECONDS_SPENT_PAGE_2_TO_3_MEASURE",
       "SECONDS_SPENT_VISIT_TO_PAGE_1_MEASURE",
       "SECONDS_SPENT_ZAN_PRIMARY_MEASURE",
       "SECONDS_SPENT_ZAN_PRIMARY_COMPLETE_MEASURE",
       "SECONDS_SPENT_ZAN_PRIMARY_INCOMPLETE_MEASURE",
       "VISIT_COUNT_ZAN_COMPLETED_LESS_THAN_7_SECONDS_MEASURE",
       "VISIT_COUNT_ZAN_PRIMARY_COMPLETE_MEASURE",
       "VISIT_COUNT_ZAN_PRIMARY_LOAD_MEASURE",
       "VISIT_COUNT_ZAN_SPENT_MORE_THAN_5_MINS_MEASURE",
       "LTV_PIXEL_CAMPAIGN_CLICKS_MEASURE",
       "LTV_PIXEL_CAMPAIGN_IMPRESSIONS_MEASURE",
       "LTV_PIXEL_PURCHASE_COUNT_MEASURE",
       "LTV_PIXEL_REVENUE_MEASURE",
       "LTV_PIXEL_ADVERTISER_COST_MEASURE",
       "FICTITIOUS_CHARACTERS_NAME_MEASURE",
       "FLAGGED_ADDRESS_MEASURE",
       "FLAGGED_NAME_MEASURE",
       "FNLN_EMAIL_STRING_MEASURE",
       "IPQS_FLAGGED_LOCATION_MEASURE",
       "MISSING_ADDRESS_NUMBER_MEASURE",
       "MISSING_STREET_TYPE_MEASURE",
       "VISITS_WITH_PII_COMPLETE_VISITS",
       "RECYCLED_IP_ADDRESS_MEASURE",
       "SINGLE_LETTER_STRING_NAME_MEASURE",
       "THREE_LETTER_STRING_NAME_MEASURE",
       "TWO_LETTER_STRING_NAME_MEASURE",
       "THREE_LETTER_STRING_LEFT_RIGHT_NAME_MEASURE",
       "VULGAR_WORDS_NAME_MEASURE",
       "VISIT_COUNT_ZAN_PRIMARY_INCOMPLETE_MEASURE",
       "POSITION_1_ANSWERS_MEASURE",
       "CAMPAIGN_CLICKS_MEASURE",
       "CAMPAIGN_CONVERSIONS_MEASURE",
       "CAMPAIGN_IMPRESSIONS_MEASURE",
       "CPA_CLICKS_MEASURE",
       "CPA_CONVERSIONS_MEASURE",
       "CPA_IMPRESSIONS_MEASURE",
       "CPA_REVENUE_MEASURE",
       "CPC_CONVERSIONS_MEASURE",
       "CPC_IMPRESSIONS_MEASURE",
       "CPC_REVENUE_MEASURE",
       "CPL_CONVERSIONS_MEASURE",
       "CPL_IMPRESSIONS_MEASURE",
       "CPL_REVENUE_MEASURE",
       "TOTAL_GROSS_REVENUE_MEASURE",
       "LAST_POSITION_ANSWERS_MEASURE",
       "TOTAL_NET_REVENUE_MEASURE",
       "PREPING_SCORE_1_PRIMARY_VISITS",
       "PREPING_SCORE_2_PRIMARY_VISITS",
       "PREPING_SCORE_3_PRIMARY_VISITS",
       "PREPING_SCORE_4_PRIMARY_VISITS",
       "PREPING_SCORE_5_PRIMARY_VISITS",
       "PRIMARY_GROSS_REVENUE_MEASURE",
       "QUESTIONS_ANSWERED_MEASURE",
       "QUESTIONS_IMPRESSED_MEASURE",
       "QUESTIONS_IMPRESSED_FOR_POSITION_RATE_MEASURE",
       "ZAN_SECONDARY_END_OF_PLACEMENT_VISITS_MEASURE",
       "QUESTIONS_ANSWERED_FOR_POSITION_RATE_MEASURE",
       "ZAN_SECONDARY_PLACEMENT_VISITS_MEASURE",
       "SECONDARY_NET_REVENUE_MEASURE" >>

\* ---- Feature definitions of src/sagemaker/training_script.py ----
Trainer_TARGET ==
    "IPQS_DEVICE_FP_FRAUD_SCORE"
Trainer_BOOLEAN_FEATURES ==
    << "IP_API_HOSTING",
       "IP_API_MOBILE",
       "IP_API_PROXY" >>
Trainer_CATEGORICAL_FEATURES ==
    << "IP_API_CITY",
       "IP_API_COUNTRY",
       "IP_API_COUNTRY_CODE",
       "IP_API_ORG",
       "IP_API_REGION",
       "IP_API_STATUS",
       "IP_API_TIMEZONE",
       "BROWSERNAME",
       "BROWSERVERSION",
       "DEVICECATEGORY",
       "DEVICETYPE",
       "OPERATINGSYSTEM",
       "OPERATINGSYSTEMVERSION",
       "PROPERTY_NAME",
       "PUBLISHER_NAME",
       "UTM_CONTENT",
       "UTM_TERM",
       "UTM_MEDIUM",
       "UTM_SOURCE",
       "VISITOR_TYPE",
       "DOMAIN",
       "STATE",
       "EMAIL_VERIFICATION_RESPONSE" >>
Trainer_NUMERIC_FEATURES ==
    << "IP_API_LATITUDE",
       "IP_API_LONGITUDE",
       "VISIT_COUNT_FORM_COMPLETED_MEASURE",
       "VISIT_COUNT_FORM_STARTED_MEASURE",
       "VISIT_COUNT_VISIT_TO_PAGE_1_MEASURE",
       "VISIT_COUNT_PAGE_1_TO_PAGE_2_MEASURE",
       "VISIT_COUNT_PAGE_2_TO_PAGE_3_MEASURE",
       "SECONDS_SPENT_FORM_MEASURE",
       "SECONDS_SPENT_FORM_COMPLETE_MEASURE",
       "SECONDS_SPENT_PAGE_1_TO_2_MEASURE",
       "SECONDS_SPENT_PAGE_2_TO_3_MEASURE",
       "SECONDS_SPENT_VISIT_TO_PAGE_1_MEASURE",
       "SECONDS_SPENT_ZAN_PRIMARY_MEASURE",
       "SECONDS_SPENT_ZAN_PRIMARY_COMPLETE_MEASURE",
       "SECONDS_SPENT_ZAN_PRIMARY_INCOMPLETE_MEASURE",
       "VISIT_COUNT_ZAN_COMPLETED_LESS_THAN_7_SECONDS_MEASURE",
       "VISIT_COUNT_ZAN_PRIMARY_COMPLETE_MEASURE",
       "VISIT_COUNT_ZAN_PRIMARY_LOAD_MEASURE",
       "VISIT_COUNT_ZAN_SPENT_MORE_THAN_5_MINS_MEASURE",
       "LTV_PIXEL_CAMPAIGN_CLICKS_MEASURE",
       "LTV_PIXEL_CAMPAIGN_IMPRESSIONS_MEASURE",
       "LTV_PIXEL_PURCHASE_COUNT_MEASURE",
       "LTV_PIXEL_REVENUE_MEASURE",
       "LTV_PIXEL_ADVERTISER_COST_MEASURE",
       "FICTITIOUS_CHARACTERS_NAME_MEASURE",
       "FLAGGED_ADDRESS_MEASURE",
       "FLAGGED_NAME_MEASURE",
       "FNLN_EMAIL_STRING_MEASURE",
       "IPQS_FLAGGED_LOCATION_MEASURE",
       "MISSING_ADDRESS_NUMBER_MEASURE",
       "MISSING_STREET_TYPE_MEASURE",
       "VISITS_WITH_PII_COMPLETE_VISITS",
       "RECYCLED_IP_ADDRESS_MEASURE",
       "SINGLE_LETTER_STRING_NAME_MEASURE",
       "THREE_LETTER_STRING_NAME_MEASURE",
       "TWO_LETTER_STRING_NAME_MEASURE",
       "THREE_LETTER_STRING_LEFT_RIGHT_NAME_MEASURE",
       "VULGAR_WORDS_NAME_MEASURE",
       "VISIT_COUNT_ZAN_PRIMARY_INCOMPLETE_MEASURE",
       "POSITION_1_ANSWERS_MEASURE",
       "CAMPAIGN_CLICKS_MEASURE",
       "CAMPAIGN_CONVERSIONS_MEASURE",
       "CAMPAIGN_IMPRESSIONS_MEASURE",
       "CPA_CLICKS_MEASURE",
       "CPA_CONVERSIONS_MEASURE",
       "CPA_IMPRESSIONS_MEASURE",
       "CPA_REVENUE_MEASURE",
       "CPC_CONVERSIONS_MEASURE",
       "CPC_IMPRESSIONS_MEASURE",
       "CPC_REVENUE_MEASURE",
       "CPL_CONVERSIONS_MEASURE",
       "CPL_IMPRESSIONS_MEASURE",
       "CPL_REVENUE_MEASURE",
       "TOTAL_GROSS_REVENUE_MEASURE",
       "LAST_POSITION_ANSWERS_MEASURE",
       "TOTAL_NET_REVENUE_MEASURE",
       "PREPING_SCORE_1_PRIMARY_VISITS",
       "PREPING_SCORE_2_PRIMARY_VISITS",
       "PREPING_SCORE_3_PRIMARY_VISITS",
       "PREPING_SCORE_4_PRIMARY_VISITS",
       "PREPING_SCORE_5_PRIMARY_VISITS",
       "PRIMARY_GROSS_REVENUE_MEASURE",
       "QUESTIONS_ANSWERED_MEASURE",
       "QUESTIONS_IMPRESSED_MEASURE",
       "QUESTIONS_IMPRESSED_FOR_POSITION_RATE_MEASURE",
       "ZAN_SECONDARY_END_OF_PLACEMENT_VISITS_MEASURE",
       "QUESTIONS_ANSWERED_FOR_POSITION_RATE_MEASURE",
       "ZAN_SECONDARY_PLACEMENT_VISITS_MEASURE",
       "SECONDARY_NET_REVENUE_MEASURE" >>

\* ---- Feature definitions of src/sagemaker/inference.py ----
Predictor_BOOLEAN_FEATURES_Reordered ==
    << "IP_API_MOBILE",
       "IP_API_HOSTING",
       "IP_API_PROXY" >>
Predictor_BOOLEAN_FEATURES ==
    << "IP_API_HOSTING",
       "IP_API_MOBILE",
       "IP_API_PROXY" >>
Predictor_CATEGORICAL_FEATURES ==
    << "IP_API_CITY",
       "IP_API_COUNTRY",
       "IP_API_COUNTRY_CODE",
       "IP_API_ORG",
       "IP_API_REGION",
       "IP_API_STATUS",
       "IP_API_TIMEZONE",
       "BROWSERNAME",
       "BROWSERVERSION",
       "DEVICECATEGORY",
       "DEVICETYPE",
       "OPERATINGSYSTEM",
       "OPERATINGSYSTEMVERSION",
       "PROPERTY_NAME",
       "PUBLISHER_NAME",
       "UTM_CONTENT",
       "UTM_TERM",
       "UTM_MEDIUM",
       "UTM_SOURCE",
       "VISITOR_TYPE",
       "DOMAIN",
       "STATE",
       "EMAIL_VERIFICATION_RESPONSE" >>
Predictor_NUMERIC_FEATURES ==
    << "IP_API_LATITUDE",
       "IP_API_LONGITUDE",
       "VISIT_COUNT_FORM_COMPLETED_MEASURE",
       "VISIT_COUNT_FORM_STARTED_MEASURE",
       "VISIT_COUNT_VISIT_TO_PAGE_1_MEASURE",
       "VISIT_COUNT_PAGE_1_TO_PAGE_2_MEASURE",
       "VISIT_COUNT_PAGE_2_TO_PAGE_3_MEASURE",
       "SECONDS_SPENT_FORM_MEASURE",
       "SECONDS_SPENT_FORM_COMPLETE_MEASURE",
       "SECONDS_SPENT_PAGE_1_TO_2_MEASURE",
       "SECONDS_SPENT_PAGE_2_TO_3_MEASURE",
       "SECONDS_SPENT_VISIT_TO_PAGE_1_MEASURE",
       "SECONDS_SPENT_ZAN_PRIMARY_MEASURE",
       "SECONDS_SPENT_ZAN_PRIMARY_COMPLETE_MEASURE",
       "SECONDS_SPENT_ZAN_PRIMARY_INCOMPLETE_MEASURE",
       "VISIT_COUNT_ZAN_COMPLETED_LESS_THAN_7_SECONDS_MEASURE",
       "VISIT_COUNT_ZAN_PRIMARY_COMPLETE_MEASURE",
       "VISIT_COUNT_ZAN_PRIMARY_LOAD_MEASURE",
       "VISIT_COUNT_ZAN_SPENT_MORE_THAN_5_MINS_MEASURE",
       "LTV_PIXEL_CAMPAIGN_CLICKS_MEASURE",
       "LTV_PIXEL_CAMPAIGN_IMPRESSIONS_MEASURE",
       "LTV_PIXEL_PURCHASE_COUNT_MEASURE",
       "LTV_PIXEL_REVENUE_MEASURE",
       "LTV_PIXEL_ADVERTISER_COST_MEASURE",
       "FICTITIOUS_CHARACTERS_NAME_MEASURE",
       "FLAGGED_ADDRESS_MEASURE",
       "FLAGGED_NAME_MEASURE",
       "FNLN_EMAIL_STRING_MEASURE",
       "IPQS_FLAGGED_LOCATION_MEASURE",
       "MISSING_ADDRESS_NUMBER_MEASURE",
       "MISSING_STREET_TYPE_MEASURE",
       "VISITS_WITH_PII_COMPLETE_VISITS",
       "RECYCLED_IP_ADDRESS_MEASURE",
       "SINGLE_LETTER_STRING_NAME_MEASURE",
       "THREE_LETTER_STRING_NAME_MEASURE",
       "TWO_LETTER_STRING_NAME_MEASURE",
       "THREE_LETTER_STRING_LEFT_RIGHT_NAME_MEASURE",
       "VULGAR_WORDS_NAME_MEASURE",
       "VISIT_COUNT_ZAN_PRIMARY_INCOMPLETE_MEASURE",
       "POSITION_1_ANSWERS_MEASURE",
       "CAMPAIGN_CLICKS_MEASURE",
       "CAMPAIGN_CONVERSIONS_MEASURE",
       "CAMPAIGN_IMPRESSIONS_MEASURE",
       "CPA_CLICKS_MEASURE",
       "CPA_CONVERSIONS_MEASURE",
       "CPA_IMPRESSIONS_MEASURE",
       "CPA_REVENUE_MEASURE",
       "CPC_CONVERSIONS_MEASURE",
       "CPC_IMPRESSIONS_MEASURE",
       "CPC_REVENUE_MEASURE",
       "CPL_CONVERSIONS_MEASURE",
       "CPL_IMPRESSIONS_MEASURE",
       "CPL_REVENUE_MEASURE",
       "TOTAL_GROSS_REVENUE_MEASURE",
       "LAST_POSITION_ANSWERS_MEASURE",
       "TOTAL_NET_REVENUE_MEASURE",
       "PREPING_SCORE_1_PRIMARY_VISITS",
       "PREPING_SCORE_2_PRIMARY_VISITS",
       "PREPING_SCORE_3_PRIMARY_VISITS",
       "PREPING_SCORE_4_PRIMARY_VISITS",
       "PREPING_SCORE_5_PRIMARY_VISITS",
       "PRIMARY_GROSS_REVENUE_MEASURE",
       "QUESTIONS_ANSWERED_MEASURE",
       "QUESTIONS_IMPRESSED_MEASURE",
       "QUESTIONS_IMPRESSED_FOR_POSITION_RATE_MEASURE",
       "ZAN_SECONDARY_END_OF_PLACEMENT_VISITS_MEASURE",
       "QUESTIONS_ANSWERED_FOR_POSITION_RATE_MEASURE",
       "ZAN_SECONDARY_PLACEMENT_VISITS_MEASURE",
       "SECONDARY_NET_REVENUE_MEASURE" >>


\* =========================================================================
\* Score loader: src/glue_scripts/load_scores_to_snowflake.py
\* =========================================================================

\* ---- bounds of the loader's inputs ----
MaxLoadRows == 3
MaxLoaderRuns == 2

\* Sample IDs (the ids file holds one ID per line under a header) and sample
\* prediction lines (the transform output holds one score text per line).
SampleIds == << "u1", "u2", "u3", "u4", "u5" >>
SampleScoreTexts == << "0.25", "0.5", "0.75", "0.125", "0.875" >>

IdsFile(n) == [ i \in 1..n |-> SampleIds[i] ]
PredictionsFile(n) == [ i \in 1..n |-> SampleScoreTexts[i] ]

\* The ways Spark can split the n rows of an input into consecutive
\* partitions: a set of cut positions (a cut at k ends a partition after
\* row k).
Cuts(n) == SUBSET (1..(n - 1))

\* Partition number (0-based) and record number within the partition
\* (0-based) of row i of an input split at `cuts`.
PartitionOf(i, cuts) == Cardinality({ k \in cuts : k < i })
RecordNumberOf(i, cuts) ==
    LET before == { k \in cuts : k < i }
        start == IF before = {} THEN 0
                 ELSE CHOOSE k \in before : \A m \in before : m <= k
    IN i - start - 1

\* monotonically_increasing_id(): the partition ID in the upper 31 bits and
\* the record number within the partition in the lower 33 bits.  The 64-bit
\* value is kept as the pair <<partition ID, record number>>, which it packs
\* without loss.
MonotonicallyIncreasingId(i, cuts) ==
    << PartitionOf(i, cuts), RecordNumberOf(i, cuts) >>

\* spark.read.csv(path).withColumn("_row_idx", monotonically_increasing_id())
WithRowIdx(file, cuts, colName) ==
    { [ _row_idx |-> MonotonicallyIncreasingId(i, cuts),
        col |-> colName, val |-> file[i] ] : i \in 1..Len(file) }

\* ids_df.join(predictions_df, on="_row_idx", how="inner").drop("_row_idx")
JoinOnRowIdx(ids, preds) ==
    { [ ID |-> a.val, PREDICTED_FRAUD_SCORE |-> b.val ] :
        << a, b >> \in { p \in ids \X preds : p[1]._row_idx = p[2]._row_idx } }

\* The job arguments the rows depend on, each with the day before the day
\* of its run.
SampleLoaderRuns ==
    { [ args |-> [ ID_COLUMN |-> "event_id", MODEL_VERSION |-> "v1" ],
        yesterday |-> "2024-01-01" ],
      [ args |-> [ ID_COLUMN |-> "EVENT_ID", MODEL_VERSION |-> "v2" ],
        yesterday |-> "2024-01-02" ] }

NoArgs == [ ID_COLUMN |-> "", MODEL_VERSION |-> "" ]

\* str.upper() on the sample column names.
UpperKeepCase(name) == name

Upper(name) ==
    CASE name = "event_id" -> "EVENT_ID"
      [] name = "EVENT_ID" -> "EVENT_ID"
      [] name = "" -> ""

\* cast(FloatType()) of a score text: the number, kept in thousandths; a text
\* that is no number gives NULL.
CastFloat(text) ==
    CASE text = "0.25" -> [ t |-> "float", thousandths |-> 250 ]
      [] text = "0.5" -> [ t |-> "float", thousandths |-> 500 ]
      [] text = "0.75" -> [ t |-> "float", thousandths |-> 750 ]
      [] text = "0.125" -> [ t |-> "float", thousandths |-> 125 ]
      [] text = "0.875" -> [ t |-> "float", thousandths |-> 875 ]
      [] OTHER -> [ t |-> "NULL", thousandths |-> 0 ]

\* Lines 111-122: the score cast to float, the three metadata columns, and
\* the ID column renamed to upper case. `now` is current_timestamp().
WithMetadata(joined, args, yesterday, now) ==
    { [ c \in { Upper(args.ID_COLUMN), "PREDICTED_FRAUD_SCORE", "MODEL_VERSION",
                "SCORED_AT", "SCORE_DATE" } |->
          CASE c = "PREDICTED_FRAUD_SCORE" -> CastFloat(r.PREDICTED_FRAUD_SCORE)
            [] c = "MODEL_VERSION" -> [ t |-> "string", v |-> args.MODEL_VERSION ]
            [] c = "SCORED_AT" -> [ t |-> "timestamp", v |-> now ]
            [] c = "SCORE_DATE" -> [ t |-> "string", v |-> yesterday ]
            [] OTHER -> [ t |-> "string", v |-> r.ID ] ] : r \in joined }

\* .mode("append").save() on the target table.
SaveOverwrite(table, rows) == SetToBag(rows)

SaveAppend(table, rows) == table (+) SetToBag(rows)

LoaderInit ==
    /\ ldPc = "idle"
    /\ ldArgs = NoArgs
    /\ ldYesterday = ""
    /\ ldRows = 0
    /\ ids_df = {}
    /\ predictions_df = {}
    /\ result_df = {}
    /\ record_count = 0
    /\ targetTable = EmptyBag
    /\ ldRuns = 0

\* A run starts: the ids file and the predictions file of the score date
\* hold n rows each, in the same row order.
LoaderStart ==
    /\ ldPc = "idle"
    /\ ldRuns < MaxLoaderRuns
    /\ \E n \in 0..MaxLoadRows : ldRows' = n
    /\ \E run \in SampleLoaderRuns :
          /\ ldArgs' = run.args
          /\ ldYesterday' = run.yesterday
    /\ ldPc' = "read"
    /\ ldRuns' = ldRuns + 1
    /\ ids_df' = {}
    /\ predictions_df' = {}
    /\ result_df' = {}
    /\ record_count' = 0
    /\ UNCHANGED targetTable
    /\ UNCHANGED notLoader

\* Lines 87-106: both inputs are read, each split into partitions by Spark,
\* and each is given its generated row index.
LoaderRead ==
    /\ ldPc = "read"
    /\ \E ic \in Cuts(ldRows), pc \in Cuts(ldRows) :
          /\ ids_df' = WithRowIdx(IdsFile(ldRows), ic, "ID")
          /\ predictions_df' =
                 WithRowIdx(PredictionsFile(ldRows), pc, "PREDICTED_FRAUD_SCORE")
    /\ ldPc' = "join"
    /\ UNCHANGED << ldRows, result_df, record_count, targetTable, ldRuns, ldArgs,
                    ldYesterday >>
    /\ UNCHANGED notLoader

\* Lines 108-125: the inner join on _row_idx and the count of its rows.
LoaderJoin ==
    /\ ldPc = "join"
    /\ result_df' = JoinOnRowIdx(ids_df, predictions_df)
    /\ record_count' = Cardinality(JoinOnRowIdx(ids_df, predictions_df))
    /\ ldPc' = "write"
    /\ UNCHANGED << ldRows, ids_df, predictions_df, targetTable, ldRuns, ldArgs,
                    ldYesterday >>
    /\ UNCHANGED notLoader

\* Lines 111-142: the joined rows get their final columns and are appended to
\* the target table, the job commits. The scoring timestamp of the run is the
\* number of the run.
LoaderWrite ==
    /\ ldPc = "write"
    /\ targetTable' =
          SaveAppend(targetTable, WithMetadata(result_df, ldArgs, ldYesterday, ldRuns))
    /\ ldPc' = "idle"
    /\ UNCHANGED << ldRows, ids_df, predictions_df, result_df, record_count,
                    ldRuns, ldArgs, ldYesterday >>
    /\ UNCHANGED notLoader


\* The pairs a positional zip of the two files gives: the i-th ID with the
\* i-th prediction.
ZipByPosition(n) ==
    { [ ID |-> IdsFile(n)[i], PREDICTED_FRAUD_SCORE |-> PredictionsFile(n)[i] ] :
        i \in 1..n }

\* C1: for every split of the two inputs into partitions, the join on the
\* generated row index pairs the i-th ID with the i-th prediction, every ID
\* gets exactly one score, and the number of rows loaded is the number of IDs.
C1_JoinPairsByPosition ==
    ldPc = "write" =>
        /\ result_df = ZipByPosition(ldRows)
        /\ record_count = ldRows

\* C17: the warehouse write is append-only: every step leaves every row of the
\* target table in it, as often as before; a run adds exactly one row per
\* joined (ID, prediction) pair, made of the uppercased ID column, the score
\* cast to float, the model version, the scoring timestamp and the score
\* date; no other step changes the table.
C17_AppendOnly ==
    [][ /\ \A r \in BagToSet(targetTable) :
              /\ BagIn(r, targetTable')
              /\ CopiesIn(r, targetTable') >= CopiesIn(r, targetTable)
        /\ IF ldPc = "write" /\ ldPc' = "idle"
           THEN LET added == targetTable' (-) targetTable
                IN /\ BagCardinality(added) = Cardinality(result_df)
                   /\ \A p \in result_df :
                         \E r \in BagToSet(added) :
                             /\ CopiesIn(r, added) = 1
                             /\ DOMAIN r = { "EVENT_ID", "PREDICTED_FRAUD_SCORE",
                                             "MODEL_VERSION", "SCORED_AT", "SCORE_DATE" }
                             /\ r["EVENT_ID"].v = p.ID
                             /\ r["PREDICTED_FRAUD_SCORE"] = CastFloat(p.PREDICTED_FRAUD_SCORE)
                             /\ r["PREDICTED_FRAUD_SCORE"].t = "float"
                             /\ r["MODEL_VERSION"].v = ldArgs.MODEL_VERSION
                             /\ r["SCORED_AT"].v = ldRuns
                             /\ r["SCORE_DATE"].v = ldYesterday
           ELSE targetTable' = targetTable
      ]_vars

\* Two runs have loaded rows: those of the first run are still in the table
\* next to those of the second.
C17_Witness ==
    /\ ldRuns = 2
    /\ ldPc = "idle"
    /\ \E r, q \in BagToSet(targetTable) :
          /\ r["SCORED_AT"].v = 1
          /\ q["SCORED_AT"].v = 2
          /\ r["MODEL_VERSION"].v # q["MODEL_VERSION"].v

\* =========================================================================
\* Null-filling projections: build_preprocessing_sql (extract_training_data.py)
\* and build_inference_sql (extract_inference_data.py)
\* =========================================================================

\* ---- warehouse values: a type tag and a payload ----
SqlNull == [ t |-> "NULL", v |-> 0 ]
SqlBool(b) == [ t |-> "BOOLEAN", v |-> b ]
SqlNum(n) == [ t |-> "NUMBER", v |-> n ]
SqlStr(x) == [ t |-> "VARCHAR", v |-> x ]

IsNull(x) == x.t = "NULL"

\* ---- expressions the builders interpolate into the SELECT list ----
Col(c) == [ op |-> "COL", col |-> c ]
Lit(x) == [ op |-> "LIT", val |-> x ]
EqExpr(a, b) == [ op |-> "EQ", a |-> a, b |-> b ]
CaseWhen(cond, a, b) == [ op |-> "CASE", when |-> cond, a |-> a, b |-> b ]
Coalesce(a, b) == [ op |-> "COALESCE", a |-> a, b |-> b ]
ToVarcharExpr(a) == [ op |-> "TO_VARCHAR", a |-> a ]
SelectPart(e, name) == [ expr |-> e, alias |-> name ]

\* f"COALESCE(CASE WHEN {col_name} = TRUE THEN 1 ELSE 0 END, 0) AS {col_name}"
BooleanPart(c) ==
    SelectPart(Coalesce(CaseWhen(EqExpr(Col(c), Lit(SqlBool(TRUE))),
                                 Lit(SqlNum(1)), Lit(SqlNum(0))),
                        Lit(SqlNum(0))), c)

\* f"COALESCE(TO_VARCHAR({col_name}), 'MISSING') AS {col_name}"
CategoricalPartEmptyAsMissing(c) ==
    SelectPart(CaseWhen(EqExpr(ToVarcharExpr(Col(c)), Lit(SqlStr(""))),
                        Lit(SqlStr("MISSING")),
                        Coalesce(ToVarcharExpr(Col(c)), Lit(SqlStr("MISSING")))), c)
CategoricalPart(c) ==
    SelectPart(Coalesce(ToVarcharExpr(Col(c)), Lit(SqlStr("MISSING"))), c)

\* f"COALESCE({col_name}, 0) AS {col_name}"
NumericPart(c) ==
    SelectPart(Coalesce(Col(c), Lit(SqlNum(0))), c)

\* A bare column of the SELECT list (the target, the ID column).
BarePart(c) == SelectPart(Col(c), c)

MapSeq(Op(_), s) == [ i \in 1..Len(s) |-> Op(s[i]) ]

\* build_preprocessing_sql, lines 152-175: the SELECT list.
TrainSelectParts ==
    MapSeq(BooleanPart, TrainExtract_BOOLEAN_FEATURES)
      \o MapSeq(CategoricalPart, TrainExtract_CATEGORICAL_FEATURES)
      \o MapSeq(NumericPart, TrainExtract_NUMERIC_FEATURES)
      \o << BarePart(TrainExtract_TARGET) >>

\* build_inference_sql, lines 156-179: the SELECT list.
InferSelectParts(id_column) ==
    << BarePart(id_column) >>
      \o MapSeq(BooleanPart, InferExtract_BOOLEAN_FEATURES)
      \o MapSeq(CategoricalPart, InferExtract_CATEGORICAL_FEATURES)
      \o MapSeq(NumericPart, InferExtract_NUMERIC_FEATURES)

\* ---- the warehouse's evaluation of an expression on one record ----
DigitText(d) ==
    CASE d = 0 -> "0" [] d = 1 -> "1" [] d = 2 -> "2" [] d = 3 -> "3"
      [] d = 4 -> "4" [] d = 5 -> "5" [] d = 6 -> "6" [] d = 7 -> "7"
      [] d = 8 -> "8" [] d = 9 -> "9"

RECURSIVE NumberText(_)
NumberText(n) ==
    IF n < 0 THEN "-" \o NumberText(-n)
    ELSE IF n < 10 THEN DigitText(n)
    ELSE NumberText(n \div 10) \o DigitText(n % 10)

\* TO_VARCHAR: NULL stays NULL, text stays itself (the empty string too),
\* a number becomes its decimal text, a boolean 'true' or 'false'.
ToVarchar(x) ==
    CASE x.t = "NULL" -> SqlNull
      [] x.t = "VARCHAR" -> x
      [] x.t = "NUMBER" -> SqlStr(NumberText(x.v))
      [] x.t = "BOOLEAN" -> SqlStr(IF x.v THEN "true" ELSE "false")

\* a = b in three-valued logic: NULL when either side is NULL.
SqlEq(x, y) ==
    IF IsNull(x) \/ IsNull(y) THEN SqlNull
    ELSE SqlBool(x.t = y.t /\ x.v = y.v)

RECURSIVE Eval(_, _)
Eval(e, rec) ==
    CASE e.op = "COL" -> rec[e.col]
      [] e.op = "LIT" -> e.val
      [] e.op = "EQ" -> SqlEq(Eval(e.a, rec), Eval(e.b, rec))
      [] e.op = "CASE" ->
            LET c == Eval(e.when, rec)
            IN IF c.t = "BOOLEAN" /\ c.v THEN Eval(e.a, rec) ELSE Eval(e.b, rec)
      [] e.op = "COALESCE" ->
            LET x == Eval(e.a, rec)
            IN IF IsNull(x) THEN Eval(e.b, rec) ELSE x
      [] e.op = "TO_VARCHAR" -> ToVarchar(Eval(e.a, rec))

\* The output row of a SELECT list on one record: alias -> value.
Project(parts, rec) ==
    [ a \in { parts[i].alias : i \in 1..Len(parts) } |->
        Eval(parts[CHOOSE i \in 1..Len(parts) : parts[i].alias = a].expr, rec) ]

\* ---- one warehouse record run through both projections ----

\* The job argument ID_COLUMN of the inference extractor.
SampleIdColumn == "EVENT_ID"

SourceColumns ==
    Range(TrainExtract_BOOLEAN_FEATURES) \cup Range(TrainExtract_CATEGORICAL_FEATURES)
      \cup Range(TrainExtract_NUMERIC_FEATURES)
      \cup Range(InferExtract_BOOLEAN_FEATURES) \cup Range(InferExtract_CATEGORICAL_FEATURES)
      \cup Range(InferExtract_NUMERIC_FEATURES)
      \cup { TrainExtract_TARGET, SampleIdColumn }

\* Raw values a column of each declared type is drawn from.
BooleanRaw == { SqlNull, SqlBool(TRUE), SqlBool(FALSE) }
CategoricalRaw ==
    { SqlNull, SqlStr(""), SqlStr("US"), SqlStr("MISSING"), SqlNum(110), SqlBool(FALSE) }
NumericRaw == { SqlNull, SqlNum(0), SqlNum(12), SqlNum(-3) }

IndexIn(s, x) == CHOOSE i \in 1..Len(s) : s[i] = x

\* A record: the columns at odd positions of their list hold the drawn value
\* of their type, the columns at even positions hold NULL.
RawRecord(bv, cv, nv) ==
    [ c \in SourceColumns |->
        LET pick(list, x) == IF IndexIn(list, c) % 2 = 1 THEN x ELSE SqlNull
        IN CASE c \in Range(TrainExtract_BOOLEAN_FEATURES) ->
                    pick(TrainExtract_BOOLEAN_FEATURES, bv)
             [] c \in Range(TrainExtract_CATEGORICAL_FEATURES) ->
                    pick(TrainExtract_CATEGORICAL_FEATURES, cv)
             [] c \in Range(TrainExtract_NUMERIC_FEATURES) ->
                    pick(TrainExtract_NUMERIC_FEATURES, nv)
             [] c = TrainExtract_TARGET -> SqlNum(40)
             [] OTHER -> SqlStr("e-1") ]

NoRow == << >>

CleanInit ==
    /\ clPc = "raw"
    /\ \E bv \in BooleanRaw, cv \in CategoricalRaw, nv \in NumericRaw :
          clRecord = RawRecord(bv, cv, nv)
    /\ clTrainRow = NoRow
    /\ clInferRow = NoRow

\* The warehouse evaluates the training projection on the record.
CleanTraining ==
    /\ clPc \in { "raw", "partial" }
    /\ clTrainRow = NoRow
    /\ clTrainRow' = Project(TrainSelectParts, clRecord)
    /\ clPc' = IF clInferRow = NoRow THEN "partial" ELSE "cleaned"
    /\ UNCHANGED << clRecord, clInferRow >>
    /\ UNCHANGED notClean

\* The warehouse evaluates the inference projection on the record.
CleanInference ==
    /\ clPc \in { "raw", "partial" }
    /\ clInferRow = NoRow
    /\ clInferRow' = Project(InferSelectParts(SampleIdColumn), clRecord)
    /\ clPc' = IF clTrainRow = NoRow THEN "partial" ELSE "cleaned"
    /\ UNCHANGED << clRecord, clTrainRow >>
    /\ UNCHANGED notClean

\* The component at rest, in the specifications of the other components.
CleanIdle ==
    /\ clPc = "off"
    /\ clRecord = NoRow
    /\ clTrainRow = NoRow
    /\ clInferRow = NoRow

\* The null-filling rule table of a declared type, on a raw value.
CleanRule(type, x) ==
    CASE type = "boolean" ->
            SqlNum(IF x.t = "BOOLEAN" /\ x.v = TRUE THEN 1 ELSE 0)
      [] type = "categorical" ->
            IF IsNull(x) THEN SqlStr("MISSING")
            ELSE IF x.t = "VARCHAR" THEN x
            ELSE IF x.t = "NUMBER" THEN SqlStr(NumberText(x.v))
            ELSE SqlStr(IF x.v THEN "true" ELSE "false")
      [] type = "numeric" ->
            IF IsNull(x) THEN SqlNum(0) ELSE x

RowFollowsRules(row, bools, cats, nums) ==
    /\ \A c \in Range(bools) : row[c] = CleanRule("boolean", clRecord[c])
    /\ \A c \in Range(cats) :
          /\ row[c] = CleanRule("categorical", clRecord[c])
          /\ (clRecord[c] = SqlStr("") => row[c] = SqlStr(""))
          /\ (row[c] = SqlStr("MISSING") =>
                  IsNull(clRecord[c]) \/ clRecord[c] = SqlStr("MISSING"))
    /\ \A c \in Range(nums) : row[c] = CleanRule("numeric", clRecord[c])

\* C3: both projections clean every column by its declared type: a boolean
\* becomes 1 exactly for TRUE and 0 otherwise (NULL too), a categorical
\* becomes its text and "MISSING" only for NULL (the empty string stays the
\* empty string), a numeric becomes itself and 0 for NULL; the two builders
\* agree on every feature column.
C3_CleaningRules ==
    /\ clTrainRow # NoRow =>
          RowFollowsRules(clTrainRow, TrainExtract_BOOLEAN_FEATURES,
                          TrainExtract_CATEGORICAL_FEATURES,
                          TrainExtract_NUMERIC_FEATURES)
    /\ clInferRow # NoRow =>
          RowFollowsRules(clInferRow, InferExtract_BOOLEAN_FEATURES,
                          InferExtract_CATEGORICAL_FEATURES,
                          InferExtract_NUMERIC_FEATURES)
    /\ clPc = "cleaned" =>
          \A c \in (DOMAIN clTrainRow) \cap (DOMAIN clInferRow) :
              clTrainRow[c] = clInferRow[c]

\* A record with TRUE, the empty string and NULLs went through both
\* projections.
C3_Witness ==
    /\ clPc = "cleaned"
    /\ clRecord["IP_API_HOSTING"] = SqlBool(TRUE)
    /\ clRecord["IP_API_MOBILE"] = SqlNull
    /\ clRecord["IP_API_CITY"] = SqlStr("")
    /\ clRecord["IP_API_COUNTRY"] = SqlNull
    /\ clRecord["IP_API_LATITUDE"] = SqlNull
    /\ clTrainRow["IP_API_CITY"] = SqlStr("")
    /\ clInferRow["IP_API_COUNTRY"] = SqlStr("MISSING")
    /\ Cardinality((DOMAIN clTrainRow) \cap (DOMAIN clInferRow)) = 95

\* =========================================================================
\* Trainer (src/sagemaker/training_script.py) and predictor
\* (src/sagemaker/inference.py)
\* =========================================================================

\* ---- cell values of a pandas frame: a type tag and a payload ----
PyStr(x) == [ t |-> "str", v |-> x ]
PyInt(n) == [ t |-> "int", v |-> n ]
PyNaN == [ t |-> "float", v |-> "nan" ]
\* A float64 cell, held as the text str() gives it.
PyFloat(repr) == [ t |-> "float", v |-> repr ]

\* Series.astype(str): text stays itself, an integer becomes its decimal
\* text, a float the text str() gives it, a missing value the text "nan".
AsTypeStr(x) ==
    CASE x.t = "str" -> x.v
      [] x.t = "int" -> NumberText(x.v)
      [] x.t = "float" -> x.v

\* The sample strings, listed in code-point order (the order in which Python
\* compares str values).
SortedStrings ==
    << "", "1.1", "1.10", "110", "110.0", "CA", "MISSING", "MX", "NA", "US",
       "nan", "null" >>

StrLess(a, b) == IndexIn(SortedStrings, a) < IndexIn(SortedStrings, b)

\* ---- frames: ordered column names and rows (column name -> cell) ----
Frame(cols, rows) == [ cols |-> cols, rows |-> rows ]
NoFrame == Frame(<< >>, << >>)

Filter(list, avail) == SelectSeq(list, LAMBDA c : c \in avail)

Encoded(c) == c \o "_ENCODED"

\* ---- OrdinalEncoder(handle_unknown='use_encoded_value', unknown_value=-1) ----
NewOrdinalEncoder ==
    [ fitted |-> FALSE, handle_unknown |-> "use_encoded_value",
      unknown_value |-> -1, feature_names_in_ |-> << >>, categories_ |-> << >> ]

\* The distinct values of a column in the order of their first occurrence.
FirstSeenUnique(values) ==
    LET firsts == { i \in 1..Len(values) : \A k \in 1..(i - 1) : values[k] # values[i] }
        RECURSIVE build(_)
        build(n) == IF n = 0 THEN << >>
                    ELSE IF n \in firsts THEN Append(build(n - 1), values[n])
                    ELSE build(n - 1)
    IN build(Len(values))

\* The distinct values of a column in the order the encoder stores them:
\* sorted (sklearn takes sorted(set(values)) for object columns).
SortedUnique(values) ==
    SelectSeq(SortedStrings, LAMBDA x : x \in Range(values))

\* encoder.fit on the frame of strings `strs` (rows: column -> text) with the
\* columns `cols`.
EncoderFit(enc, cols, strs) ==
    [ enc EXCEPT
        !.fitted = TRUE,
        !.feature_names_in_ = cols,
        !.categories_ =
            [ j \in 1..Len(cols) |->
                SortedUnique([ i \in 1..Len(strs) |-> strs[i][cols[j]] ]) ] ]

\* The code of one text under the categories of one column: its 0-based
\* position among them, or unknown_value when it is not among them.
EncodeValueUnknownAsZero(categories, x, unknown) ==
    IF x \in Range(categories) THEN IndexIn(categories, x) - 1 ELSE 0
EncodeValue(categories, x, unknown) ==
    IF x \in Range(categories) THEN IndexIn(categories, x) - 1 ELSE unknown

\* encoder.transform raises ValueError when the frame has another number of
\* columns than the fit saw, and (in the releases that enforce feature names)
\* when the column names differ from those of the fit.
TransformRaises(enc, cols, strict) ==
    \/ ~enc.fitted
    \/ Len(cols) # Len(enc.feature_names_in_)
    \/ (strict /\ cols # enc.feature_names_in_)

\* encoder.transform: column j of the input is encoded with the categories
\* of column j of the fit.  The result is an array: rows of codes by position.
EncoderTransform(enc, cols, strs) ==
    [ i \in 1..Len(strs) |->
        [ j \in 1..Len(cols) |->
            EncodeValue(enc.categories_[j], strs[i][cols[j]], enc.unknown_value) ] ]

\* df[cat_cols].astype(str)
CatStrings(df, cat_cols) ==
    [ i \in 1..Len(df.rows) |->
        [ c \in Range(cat_cols) |-> AsTypeStr(df.rows[i][c]) ] ]

\* pd.concat([df[bool_cols], cat_encoded_df, df[num_cols]], axis=1): the
\* column names of the assembled frame.
AssembleColumnsInputOrder(df, bool_cols, cat_cols, num_cols) ==
    [ k \in 1..Len(SelectSeq(df.cols, LAMBDA c :
                 c \in Range(bool_cols) \cup Range(cat_cols) \cup Range(num_cols))) |->
        LET c == SelectSeq(df.cols, LAMBDA d :
                 d \in Range(bool_cols) \cup Range(cat_cols) \cup Range(num_cols))[k]
        IN IF c \in Range(cat_cols) THEN Encoded(c) ELSE c ]
AssembleColumns(df, bool_cols, cat_cols, num_cols) ==
    bool_cols \o [ j \in 1..Len(cat_cols) |-> Encoded(cat_cols[j]) ] \o num_cols

\* The assembled frame: boolean and numeric cells from the input, the codes
\* under the "_ENCODED" names.
Assemble(df, bool_cols, cat_cols, num_cols, cat_encoded) ==
    LET kept == Range(bool_cols) \cup Range(num_cols)
        encoded == { Encoded(cat_cols[j]) : j \in 1..Len(cat_cols) }
        position == [ n \in encoded |->
                        CHOOSE j \in 1..Len(cat_cols) : Encoded(cat_cols[j]) = n ]
    IN Frame(AssembleColumns(df, bool_cols, cat_cols, num_cols),
             [ i \in 1..Len(df.rows) |->
                 [ n \in kept \cup encoded |->
                     IF n \in kept THEN df.rows[i][n]
                     ELSE PyInt(cat_encoded[i][position[n]]) ] ])

\* prepare_features(df, encoder, fit): [err, X, y, encoder], and df as the
\* call leaves it.
prepare_features_refit(df, encoder, fit, strict) ==
    LET avail == Range(df.cols)
        bool_cols == Filter(Trainer_BOOLEAN_FEATURES, avail)
        cat_cols == Filter(Trainer_CATEGORICAL_FEATURES, avail)
        num_cols == Filter(Trainer_NUMERIC_FEATURES, avail)
        strs == CatStrings(df, cat_cols)
        enc == EncoderFit(NewOrdinalEncoder, cat_cols, strs)
    IN [ err |-> "",
         X |-> Assemble(df, bool_cols, cat_cols, num_cols,
                        EncoderTransform(enc, cat_cols, strs)),
         y |-> IF Trainer_TARGET \in avail
               THEN [ i \in 1..Len(df.rows) |-> df.rows[i][Trainer_TARGET] ]
               ELSE << >>,
         encoder |-> enc,
         df |-> df ]

prepare_features(df, encoder, fit, strict) ==
    LET avail == Range(df.cols)
        bool_cols == Filter(Trainer_BOOLEAN_FEATURES, avail)
        cat_cols == Filter(Trainer_CATEGORICAL_FEATURES, avail)
        num_cols == Filter(Trainer_NUMERIC_FEATURES, avail)
        strs == CatStrings(df, cat_cols)
        enc == IF fit THEN EncoderFit(NewOrdinalEncoder, cat_cols, strs) ELSE encoder
    IN IF TransformRaises(enc, cat_cols, strict)
       THEN [ err |-> "ValueError", X |-> NoFrame, y |-> << >>, encoder |-> enc,
              df |-> df ]
       ELSE [ err |-> "",
              X |-> Assemble(df, bool_cols, cat_cols, num_cols,
                             EncoderTransform(enc, cat_cols, strs)),
              y |-> IF Trainer_TARGET \in avail
                    THEN [ i \in 1..Len(df.rows) |-> df.rows[i][Trainer_TARGET] ]
                    ELSE << >>,
              encoder |-> enc,
              df |-> df ]

\* X[feature_names]: KeyError when a name is no column of X; otherwise the
\* columns of X named, in the order named.
ReindexRaises(X, names) == \E k \in 1..Len(names) : names[k] \notin Range(X.cols)

ReindexKeepOrder(X, names) == X
ReindexFillMissing(X, names) ==
    Frame(names,
          [ i \in 1..Len(X.rows) |->
              [ n \in Range(names) |->
                  IF n \in Range(X.cols) THEN X.rows[i][n] ELSE PyInt(0) ] ])
Reindex(X, names) ==
    Frame(names, [ i \in 1..Len(X.rows) |-> [ n \in Range(names) |-> X.rows[i][n] ] ])

\* model.predict(dmatrix): one score per row, a function of the row's values
\* by position; the positional vector stands for its score.
BoosterPredict(dmatrix) ==
    [ i \in 1..Len(dmatrix.rows) |->
        [ k \in 1..Len(dmatrix.cols) |-> dmatrix.rows[i][dmatrix.cols[k]] ] ]

\* predict_fn(input_data, model) with the loaded encoder and feature_names:
\* [err, X (assembled), dmatrix (passed to the model), predictions], and
\* input_data and the encoder as the call leaves them.
predict_fn_fill(input_data, encoder, feature_names, strict) ==
    LET avail == Range(input_data.cols)
        bool_cols == Filter(Predictor_BOOLEAN_FEATURES, avail)
        cat_cols == Filter(Predictor_CATEGORICAL_FEATURES, avail)
        num_cols == Filter(Predictor_NUMERIC_FEATURES, avail)
        strs == CatStrings(input_data, cat_cols)
        X == Assemble(input_data, bool_cols, cat_cols, num_cols,
                      EncoderTransform(encoder, cat_cols, strs))
        none == [ err |-> "", X |-> NoFrame, dmatrix |-> NoFrame, predictions |-> << >>,
                  input_data |-> input_data, encoder |-> encoder ]
    IN IF TransformRaises(encoder, cat_cols, strict)
       THEN [ none EXCEPT !.err = "ValueError" ]
       ELSE [ none EXCEPT !.X = X,
                          !.dmatrix = ReindexFillMissing(X, feature_names),
                          !.predictions =
                              BoosterPredict(ReindexFillMissing(X, feature_names)) ]
predict_fn(input_data, encoder, feature_names, strict) ==
    LET avail == Range(input_data.cols)
        bool_cols == Filter(Predictor_BOOLEAN_FEATURES, avail)
        cat_cols == Filter(Predictor_CATEGORICAL_FEATURES, avail)
        num_cols == Filter(Predictor_NUMERIC_FEATURES, avail)
        strs == CatStrings(input_data, cat_cols)
        X == Assemble(input_data, bool_cols, cat_cols, num_cols,
                      EncoderTransform(encoder, cat_cols, strs))
        none == [ err |-> "", X |-> NoFrame, dmatrix |-> NoFrame, predictions |-> << >>,
                  input_data |-> input_data, encoder |-> encoder ]
    IN IF TransformRaises(encoder, cat_cols, strict)
       THEN [ none EXCEPT !.err = "ValueError" ]
       ELSE IF ReindexRaises(X, feature_names)
       THEN [ none EXCEPT !.err = "KeyError", !.X = X ]
       ELSE [ none EXCEPT !.X = X,
                          !.dmatrix = Reindex(X, feature_names),
                          !.predictions = BoosterPredict(Reindex(X, feature_names)) ]

\* ---- the model directory: file name -> content ----
Trainer_encoder_file == "encoder.pkl"
Trainer_features_file == "feature_names.json"
Trainer_model_file == "xgboost-model"
Predictor_encoder_file_renamed == "ordinal_encoder.pkl"
Predictor_encoder_file == "encoder.pkl"
Predictor_features_file == "feature_names.json"
Predictor_model_file == "xgboost-model"

\* pickle.dump / pickle.load of the encoder: the class and its attributes.
PickleDump(obj) == [ format |-> "pickle", class |-> "OrdinalEncoder", state |-> obj ]
PickleLoad(bytes) == bytes.state

\* json.dump of a list of names: "[", the quoted names separated by ",", "]".
JsonDump(names) ==
    << [ k |-> "punct", s |-> "[" ] >>
      \o [ i \in 1..(2 * Len(names)) |->
             IF i % 2 = 1 THEN [ k |-> "string", s |-> names[(i + 1) \div 2] ]
             ELSE [ k |-> "punct", s |-> IF i = 2 * Len(names) THEN "]" ELSE "," ] ]
      \o (IF Len(names) = 0 THEN << [ k |-> "punct", s |-> "]" ] >> ELSE << >>)

\* json.load: the strings of the array, in order.
JsonLoad(text) ==
    LET strs == SelectSeq(text, LAMBDA tok : tok.k = "string")
    IN [ i \in 1..Len(strs) |-> strs[i].s ]

\* xgb.train(params, dtrain, evals=[...]): the booster takes its feature
\* names from dtrain and rejects an evaluation matrix with other names.
TrainModelRaises(Xt, Xv) == Xv.cols # Xt.cols

Booster(Xt) == [ format |-> "xgboost", feature_names |-> Xt.cols ]

\* save_model(model, encoder, feature_names, model_dir)
save_model(model, encoder, feature_names, dir) ==
    (Trainer_model_file :> model)
      @@ (Trainer_encoder_file :> PickleDump(encoder))
      @@ (Trainer_features_file :> JsonDump(feature_names))
      @@ dir

\* ---- bounds and samples of the frames given to the trainer and predictor ----
MaxTrainRows == 3
MaxValRows == 3
MaxPredictRows == 2
MaxWideRows == 1

B1 == TrainExtract_BOOLEAN_FEATURES[1]
C1 == TrainExtract_CATEGORICAL_FEATURES[1]
C2 == TrainExtract_CATEGORICAL_FEATURES[2]
N1 == TrainExtract_NUMERIC_FEATURES[1]
N2 == TrainExtract_NUMERIC_FEATURES[2]

Reverse(q) == [ i \in 1..Len(q) |-> q[Len(q) + 1 - i] ]

\* The columns of the files the training extractor writes: its SELECT list
\* (split_key and DATA_SPLIT are dropped before the write).
ExtractorLayout == [ i \in 1..Len(TrainSelectParts) |-> TrainSelectParts[i].alias ]

\* inference.py line 132, the names input_fn gives the CSV columns.
Predictor_ALL_RAW_FEATURES ==
    Predictor_BOOLEAN_FEATURES \o Predictor_CATEGORICAL_FEATURES
      \o Predictor_NUMERIC_FEATURES

TrainLayouts ==
    { ExtractorLayout,
      Reverse(ExtractorLayout),
      << N1, C1, B1, TrainExtract_TARGET >>,
      << TrainExtract_TARGET, C2, C1, B1, N1 >> }

ValLayouts(trainLayout) ==
    { trainLayout,
      Reverse(trainLayout),
      << C1, N1, TrainExtract_TARGET >> }

PredictLayouts ==
    { Predictor_ALL_RAW_FEATURES,
      Reverse(Predictor_ALL_RAW_FEATURES),
      << N1, C1, B1 >>,
      << B1, C1, N1 >>,
      << C1, N1 >>,
      << B1, N1 >>,
      << B1, C1 >>,
      << N2, N1, C1, B1 >>,
      << "REQUEST_ID", N1, C2, C1, B1, TrainExtract_TARGET >>,
      << B1, C2, N1 >> }

TrainStrings == { "US", "CA" }
ApplyStrings == { "US", "CA", "MX" }

SeqsUpTo(S, n) == UNION { [ 1..k -> S ] : k \in 1..n }

\* The frames with all columns of the contract hold at most MaxWideRows rows,
\* the frames with a few columns at most n.
WideLayouts ==
    { ExtractorLayout, Reverse(ExtractorLayout),
      Predictor_ALL_RAW_FEATURES, Reverse(Predictor_ALL_RAW_FEATURES) }

ColumnTexts(cols, S, n) ==
    SeqsUpTo(S, IF cols \in WideLayouts THEN MaxWideRows ELSE n)

\* Row k of a sample frame: the first categorical column holds the drawn
\* text, the second holds `second`, every other column a value of its type.
BooleanColumns == Range(TrainExtract_BOOLEAN_FEATURES)
CategoricalColumns == Range(TrainExtract_CATEGORICAL_FEATURES)
NumericColumns == Range(TrainExtract_NUMERIC_FEATURES)

SampleRow(cols, k, first, second) ==
    [ c \in Range(cols) |->
        CASE c = C1 -> PyStr(first)
          [] c = C2 -> PyStr(second)
          [] c \in BooleanColumns -> PyInt(k % 2)
          [] c \in CategoricalColumns -> PyStr("MISSING")
          [] c \in NumericColumns -> PyInt(k)
          [] c = TrainExtract_TARGET -> PyInt(10 * k)
          [] OTHER -> PyStr("r-1") ]

\* A training frame: the second categorical column always holds "CA".
TrainFrame(cols, texts) ==
    Frame(cols, [ k \in 1..Len(texts) |-> SampleRow(cols, k, texts[k], "CA") ])

\* A frame the fitted encoder is applied to: both categorical columns hold
\* the drawn text.
ApplyFrame(cols, texts) ==
    Frame(cols, [ k \in 1..Len(texts) |-> SampleRow(cols, k, texts[k], texts[k]) ])

NoFiles == << >>
NoOutput == [ err |-> "not called", X |-> NoFrame, dmatrix |-> NoFrame,
              predictions |-> << >>, input_data |-> NoFrame,
              encoder |-> NewOrdinalEncoder ]

TrainerInit ==
    /\ trPc = "start"
    /\ train_df = NoFrame
    /\ val_df = NoFrame
    /\ X_train = NoFrame
    /\ X_val = NoFrame
    /\ trEncoder = NewOrdinalEncoder
    /\ trFeatureNames = << >>
    /\ modelDir = NoFiles

\* ---- requests: content type and body, as the serving container gets them ----
SampleContentTypes == { "text/csv", "application/json", "application/x-parquet" }

SampleAccepts == { "text/csv", "*/*", "application/json", "application/xml" }

\* The text of a value in a CSV file.
CsvText(x) ==
    CASE x.t = "str" -> x.v
      [] x.t = "int" -> NumberText(x.v)
      [] x.t = "float" -> ""

\* A headerless CSV body: lines of cell texts, by position.
CsvBody(df) ==
    [ kind |-> "csv", keys |-> << >>,
      lines |-> [ i \in 1..Len(df.rows) |->
                    [ k \in 1..Len(df.cols) |-> CsvText(df.rows[i][df.cols[k]]) ] ] ]

\* A JSON body: one record, or a list of records with the same keys.
JsonBody(df, kind) ==
    [ kind |-> kind, keys |-> df.cols,
      lines |-> [ i \in 1..Len(df.rows) |->
                    [ k \in 1..Len(df.cols) |-> df.rows[i][df.cols[k]] ] ] ]

NoBody == [ kind |-> "none", keys |-> << >>, lines |-> << >> ]

\* The texts pd.read_csv reads as a missing value.
Pandas_NA_VALUES ==
    { "", "#N/A", "#N/A N/A", "#NA", "-1.#IND", "-1.#QNAN", "-NaN", "-nan",
      "1.#IND", "1.#QNAN", "<NA>", "N/A", "NA", "NULL", "NaN", "None", "n/a",
      "nan", "null" }

\* The numbers whose text the sample bodies hold.
MaxCsvNumber == 12

\* pd.read_csv on one cell: a missing value, a number, or the text itself.
ParseCsvCell(text) ==
    IF text \in Pandas_NA_VALUES THEN PyNaN
    ELSE IF \E n \in 0..MaxCsvNumber : NumberText(n) = text
         THEN PyInt(CHOOSE n \in 0..MaxCsvNumber : NumberText(n) = text)
         ELSE PyStr(text)

\* The integers and the decimal fractions whose text the sample bodies hold,
\* the latter with the text str() gives the parsed float.
CsvIntegers == 0..MaxCsvNumber
CsvFractions == { << "1.10", "1.1" >> }

IsIntegerText(text) == \E n \in CsvIntegers : NumberText(n) = text
IsFractionText(text) == \E f \in CsvFractions : f[1] = text

FloatRepr(text) ==
    IF IsFractionText(text)
    THEN (CHOOSE f \in CsvFractions : f[1] = text)[2]
    ELSE text \o ".0"

\* pd.read_csv on one column, given as the texts of its cells: the dtype is
\* inferred from the whole column.  Cells of a column of integers are int64;
\* a column of numbers with a fraction or a missing value is float64; any
\* other column is object, its cells the text itself or a missing value.
ReadCsvColumn(texts) ==
    LET present == { i \in 1..Len(texts) : texts[i] \notin Pandas_NA_VALUES }
        allInt == \A i \in present : IsIntegerText(texts[i])
        allNum == \A i \in present : IsIntegerText(texts[i]) \/ IsFractionText(texts[i])
    IN [ i \in 1..Len(texts) |->
           IF i \notin present THEN PyNaN
           ELSE IF allInt /\ present = 1..Len(texts) THEN ParseCsvCell(texts[i])
           ELSE IF allNum THEN PyFloat(FloatRepr(texts[i]))
           ELSE PyStr(texts[i]) ]

\* input_fn(request_body, request_content_type): [err, df].
input_fn_lenient(request_body, request_content_type) ==
    [ err |-> "",
      df |-> Frame(Predictor_ALL_RAW_FEATURES,
                   [ i \in 1..Len(request_body.lines) |->
                       [ c \in Range(Predictor_ALL_RAW_FEATURES) |-> PyNaN ] ]) ]

input_fn(request_body, request_content_type) ==
    IF request_content_type = "text/csv"
    THEN LET columns ==
                 [ k \in 1..Len(Predictor_ALL_RAW_FEATURES) |->
                     ReadCsvColumn([ j \in 1..Len(request_body.lines) |->
                                       request_body.lines[j][k] ]) ]
         IN [ err |-> "",
              df |-> Frame(Predictor_ALL_RAW_FEATURES,
                           [ i \in 1..Len(request_body.lines) |->
                               [ c \in Range(Predictor_ALL_RAW_FEATURES) |->
                                   columns[IndexIn(Predictor_ALL_RAW_FEATURES, c)][i] ] ]) ]
    ELSE IF request_content_type = "application/json"
    THEN [ err |-> "",
           df |-> Frame(request_body.keys,
                        [ i \in 1..Len(request_body.lines) |->
                            [ c \in Range(request_body.keys) |->
                                request_body.lines[i][IndexIn(request_body.keys, c)] ] ]) ]
    ELSE [ err |-> "ValueError", df |-> NoFrame ]

\* str(p) of one prediction.
PyStrOf(p) == [ t |-> "str", of |-> p ]

NoText == [ kind |-> "none", items |-> << >> ]

\* output_fn(prediction, accept): [err, text]; the text is the lines joined
\* by "\n", or the JSON array of the predictions.
output_fn_reversed(prediction, accept) ==
    [ err |-> "",
      text |-> [ kind |-> "lines",
                 items |-> [ i \in 1..Len(prediction) |->
                               PyStrOf(prediction[Len(prediction) + 1 - i]) ] ] ]

output_fn(prediction, accept) ==
    IF accept = "text/csv" \/ accept = "*/*"
    THEN [ err |-> "",
           text |-> [ kind |-> "lines",
                      items |-> [ i \in 1..Len(prediction) |-> PyStrOf(prediction[i]) ] ] ]
    ELSE IF accept = "application/json"
    THEN [ err |-> "", text |-> [ kind |-> "json", items |-> prediction ] ]
    ELSE [ err |-> "ValueError", text |-> NoText ]

NoRequest == [ content_type |-> "", body |-> NoBody ]

NoResponse == [ accept |-> "", err |-> "not called", text |-> NoText ]

\* The requests: CSV bodies as the inference extractor writes them, JSON
\* bodies with the keys of a sample layout, and a body of another type.
SampleRequests ==
    { [ content_type |-> "text/csv", body |-> CsvBody(ApplyFrame(Predictor_ALL_RAW_FEATURES, t)) ] :
        t \in ColumnTexts(Predictor_ALL_RAW_FEATURES, ApplyStrings, MaxPredictRows) }
    \cup UNION { { [ content_type |-> "application/json",
                     body |-> JsonBody(ApplyFrame(cols, t), "json-list") ] :
                     t \in ColumnTexts(cols, ApplyStrings, MaxPredictRows) } :
                 cols \in PredictLayouts }
    \cup { [ content_type |-> "application/json",
             body |-> JsonBody(ApplyFrame(cols, << "US" >>), "json-record") ] :
             cols \in PredictLayouts }
    \cup { [ content_type |-> "application/x-parquet",
             body |-> CsvBody(ApplyFrame(<< N1, C1, B1 >>, << "US" >>)) ] }

\* ---- the features file of the inference extractor ----
\* Texts a cleaned categorical column can hold: COALESCE(TO_VARCHAR(col),
\* 'MISSING') passes every non-NULL text of the source through.
CleanedStrings == { "US", "NA", "null", "", "1.10" }

\* extract_inference_data.py line 272.
feature_cols_after_id ==
    << SampleIdColumn >> \o InferExtract_BOOLEAN_FEATURES
      \o InferExtract_CATEGORICAL_FEATURES \o InferExtract_NUMERIC_FEATURES

feature_cols ==
    InferExtract_BOOLEAN_FEATURES \o InferExtract_CATEGORICAL_FEATURES
      \o InferExtract_NUMERIC_FEATURES

\* The columns of the frame the inference query gives: the ID column first
\* (line 159), then the cleaned features.
InferLayout == << SampleIdColumn >> \o feature_cols

\* df.select(cols)
Select(df, cols) ==
    Frame(cols, [ i \in 1..Len(df.rows) |-> [ c \in Range(cols) |-> df.rows[i][c] ] ])

\* df.select(feature_cols).write.option("header", "false").csv(...): the
\* fields of each line as a reader gets them after unquoting (Spark quotes an
\* empty text, the pandas tokenizer strips the quotes).
WriteFeaturesCsv(df) == CsvBody(Select(df, feature_cols))

\* The requests Batch Transform makes from the features file.
ExtractedRequests ==
    { [ content_type |-> "text/csv",
        body |-> WriteFeaturesCsv(ApplyFrame(InferLayout, texts)) ] :
        texts \in SeqsUpTo(CleanedStrings, MaxPredictRows) }

PredictorInit ==
    /\ pdPc = "cold"
    /\ pdEncoder = NewOrdinalEncoder
    /\ pdFeatureNames = << >>
    /\ pdInput = NoFrame
    /\ pdOut = NoOutput
    /\ pdRequest = NoRequest
    /\ pdResponse = NoResponse

\* main, lines 345-353: the training files and the validation files are
\* loaded.
TrainerLoad ==
    /\ trPc = "start"
    /\ \E cols \in TrainLayouts :
       \E texts \in ColumnTexts(cols, TrainStrings, MaxTrainRows) :
          train_df' = TrainFrame(cols, texts)
    /\ \E cols \in ValLayouts(train_df'.cols) :
       \E texts \in ColumnTexts(cols, ApplyStrings, MaxValRows) :
          val_df' = ApplyFrame(cols, texts)
    /\ trPc' = "loaded"
    /\ UNCHANGED << X_train, X_val, trEncoder, trFeatureNames, modelDir >>
    /\ UNCHANGED notTrainer

\* The same, on training files that hold the texts a cleaned categorical
\* column can hold; parquet gives them back as the texts they are.
TrainerLoadCleaned ==
    /\ trPc = "start"
    /\ \E texts \in SeqsUpTo(CleanedStrings, MaxWideRows) :
          /\ train_df' = TrainFrame(ExtractorLayout, texts)
          /\ val_df' = ApplyFrame(ExtractorLayout, texts)
    /\ trPc' = "loaded"
    /\ UNCHANGED << X_train, X_val, trEncoder, trFeatureNames, modelDir >>
    /\ UNCHANGED notTrainer

\* main, line 356: the encoder is fit on the training frame. The frame and
\* the encoder are the objects the call leaves behind.
TrainerFit ==
    /\ trPc = "loaded"
    /\ LET r == prepare_features(train_df, NewOrdinalEncoder, TRUE, TRUE)
       IN /\ train_df' = r.df
          /\ X_train' = r.X
          /\ trEncoder' = r.encoder
          /\ trPc' = IF r.err = "" THEN "fitted" ELSE "failed"
    /\ UNCHANGED << val_df, X_val, trFeatureNames, modelDir >>
    /\ UNCHANGED notTrainer

\* main, line 357: the validation frame is encoded with the fitted encoder.
TrainerApply ==
    /\ trPc = "fitted"
    /\ \E strict \in BOOLEAN :
          LET r == prepare_features(val_df, trEncoder, FALSE, strict)
          IN /\ val_df' = r.df
             /\ X_val' = r.X
             /\ trEncoder' = r.encoder
             /\ trPc' = IF r.err = "" THEN "prepared" ELSE "failed"
    /\ UNCHANGED << train_df, X_train, trFeatureNames, modelDir >>
    /\ UNCHANGED notTrainer

\* main, lines 362-368: train_model and evaluate_model.
TrainerTrain ==
    /\ trPc = "prepared"
    /\ trPc' = IF TrainModelRaises(X_train, X_val) THEN "failed" ELSE "trained"
    /\ UNCHANGED << train_df, val_df, X_train, X_val, trEncoder, trFeatureNames,
                    modelDir >>
    /\ UNCHANGED notTrainer

\* main, lines 370-387: save_model with X_train.columns.tolist(); main
\* returns and the frames are released.
TrainerSave ==
    /\ trPc = "trained"
    /\ trFeatureNames' = X_train.cols
    /\ modelDir' = save_model(Booster(X_train), trEncoder, X_train.cols, modelDir)
    /\ trPc' = "saved"
    /\ train_df' = NoFrame
    /\ val_df' = NoFrame
    /\ X_train' = NoFrame
    /\ X_val' = NoFrame
    /\ UNCHANGED trEncoder
    /\ UNCHANGED notTrainer

\* model_fn(model_dir): the three files are read into the globals; a missing
\* file raises and the container does not start.
ModelFn ==
    /\ pdPc = "cold"
    /\ trPc = "saved"
    /\ IF { Predictor_model_file, Predictor_encoder_file, Predictor_features_file }
            \subseteq DOMAIN modelDir
       THEN /\ pdEncoder' = PickleLoad(modelDir[Predictor_encoder_file])
            /\ pdFeatureNames' = JsonLoad(modelDir[Predictor_features_file])
            /\ pdPc' = "loaded"
       ELSE /\ pdPc' = "load_failed"
            /\ UNCHANGED << pdEncoder, pdFeatureNames >>
    /\ UNCHANGED << pdInput, pdOut, pdRequest, pdResponse, modelDir >>
    /\ UNCHANGED notPredictor

\* input_fn on a request: the parsed frame, or the error that ends the
\* request.
InputFn ==
    /\ pdPc = "loaded"
    /\ pdRequest = NoRequest
    /\ \E request \in SampleRequests :
          LET parsed == input_fn(request.body, request.content_type)
          IN /\ pdRequest' = request
             /\ pdInput' = parsed.df
             /\ pdResponse' = IF parsed.err = "" THEN NoResponse
                              ELSE [ NoResponse EXCEPT !.err = parsed.err ]
    /\ UNCHANGED << pdPc, pdEncoder, pdFeatureNames, pdOut, modelDir >>
    /\ UNCHANGED notPredictor

\* input_fn on a request made from the features file.
InputFnExtracted ==
    /\ pdPc = "loaded"
    /\ pdRequest = NoRequest
    /\ \E request \in ExtractedRequests :
          LET parsed == input_fn(request.body, request.content_type)
          IN /\ pdRequest' = request
             /\ pdInput' = parsed.df
             /\ pdResponse' = IF parsed.err = "" THEN NoResponse
                              ELSE [ NoResponse EXCEPT !.err = parsed.err ]
    /\ UNCHANGED << pdPc, pdEncoder, pdFeatureNames, pdOut, modelDir >>
    /\ UNCHANGED notPredictor

\* predict_fn(input_data, model) on the parsed request.
PredictFn ==
    /\ pdPc = "loaded"
    /\ pdRequest # NoRequest
    /\ pdResponse = NoResponse
    /\ pdOut = NoOutput
    /\ \E strict \in BOOLEAN :
          LET r == predict_fn(pdInput, pdEncoder, pdFeatureNames, strict)
          IN /\ pdOut' = r
             /\ pdInput' = r.input_data
             /\ pdEncoder' = r.encoder
    /\ UNCHANGED << pdPc, pdFeatureNames, pdRequest, pdResponse, modelDir >>
    /\ UNCHANGED notPredictor

\* output_fn(prediction, accept) on the predictions of the request.
OutputFn ==
    /\ pdPc = "loaded"
    /\ pdOut # NoOutput
    /\ pdOut.err = ""
    /\ pdResponse = NoResponse
    /\ \E accept \in SampleAccepts :
          LET out == output_fn(pdOut.predictions, accept)
          IN pdResponse' = [ accept |-> accept, err |-> out.err, text |-> out.text ]
    /\ UNCHANGED << pdPc, pdEncoder, pdFeatureNames, pdInput, pdOut, pdRequest,
                    modelDir >>
    /\ UNCHANGED notPredictor

\* The request ends: the response (or the error) goes back to the caller and
\* the request's frames are released.
EndRequest ==
    /\ pdPc = "loaded"
    /\ pdRequest # NoRequest
    /\ pdResponse # NoResponse \/ pdOut.err \notin { "", "not called" }
    /\ pdInput' = NoFrame
    /\ pdOut' = NoOutput
    /\ pdRequest' = NoRequest
    /\ pdResponse' = NoResponse
    /\ UNCHANGED << pdPc, pdEncoder, pdFeatureNames, modelDir >>
    /\ UNCHANGED notPredictor

\* The components at rest, in the specifications of the other components.
ModelIdle == TrainerInit /\ PredictorInit

\* =========================================================================
\* Properties of the trainer and the predictor
\* =========================================================================

\* C2: the feature contract is identical at the four call sites: the same
\* names in the same order in each list, the three lists pairwise disjoint
\* with no repeated name, and the target column in none of them; so a
\* request laid out by the predictor's lists assembles into the feature names
\* of a model trained on the training extractor's columns.
C2_FeatureContractIdentical ==
    /\ InferExtract_BOOLEAN_FEATURES = TrainExtract_BOOLEAN_FEATURES
    /\ Trainer_BOOLEAN_FEATURES = TrainExtract_BOOLEAN_FEATURES
    /\ Predictor_BOOLEAN_FEATURES = TrainExtract_BOOLEAN_FEATURES
    /\ InferExtract_CATEGORICAL_FEATURES = TrainExtract_CATEGORICAL_FEATURES
    /\ Trainer_CATEGORICAL_FEATURES = TrainExtract_CATEGORICAL_FEATURES
    /\ Predictor_CATEGORICAL_FEATURES = TrainExtract_CATEGORICAL_FEATURES
    /\ InferExtract_NUMERIC_FEATURES = TrainExtract_NUMERIC_FEATURES
    /\ Trainer_NUMERIC_FEATURES = TrainExtract_NUMERIC_FEATURES
    /\ Predictor_NUMERIC_FEATURES = TrainExtract_NUMERIC_FEATURES
    /\ InferExtract_TARGET = TrainExtract_TARGET
    /\ Trainer_TARGET = TrainExtract_TARGET
    /\ \A site \in { TrainExtract_BOOLEAN_FEATURES \o TrainExtract_CATEGORICAL_FEATURES
                        \o TrainExtract_NUMERIC_FEATURES,
                     InferExtract_BOOLEAN_FEATURES \o InferExtract_CATEGORICAL_FEATURES
                        \o InferExtract_NUMERIC_FEATURES,
                     Trainer_BOOLEAN_FEATURES \o Trainer_CATEGORICAL_FEATURES
                        \o Trainer_NUMERIC_FEATURES,
                     Predictor_BOOLEAN_FEATURES \o Predictor_CATEGORICAL_FEATURES
                        \o Predictor_NUMERIC_FEATURES } :
          /\ NoDup(site)
          /\ TrainExtract_TARGET \notin Range(site)
    /\ (pdOut.X # NoFrame /\ pdInput.cols = Predictor_ALL_RAW_FEATURES
            /\ Len(trFeatureNames) = Len(ExtractorLayout) - 1)
          => pdOut.X.cols = trFeatureNames

\* The four sites at work: a model trained on the training extractor's
\* columns scores a request parsed with the predictor's CSV column names.
C2_Witness ==
    /\ trPc = "saved"
    /\ Len(trFeatureNames) = Len(ExtractorLayout) - 1
    /\ pdPc = "loaded"
    /\ pdInput.cols = Predictor_ALL_RAW_FEATURES
    /\ pdOut.err = ""
    /\ Len(pdOut.predictions) = 1

\* The names of the contract in assembly order, for the lists of one site.
ContractNames(bools, cats, nums) ==
    bools \o [ j \in 1..Len(cats) |-> cats[j] \o "_ENCODED" ] \o nums

\* `xcols` holds exactly the available features under their assembled names,
\* each once, in the order of the contract.
InContractOrder(xcols, inputCols, bools, cats, nums) ==
    LET names == ContractNames(bools, cats, nums)
        raw == bools \o cats \o nums
    IN /\ NoDup(xcols)
       /\ Range(xcols) = { names[k] : k \in { m \in 1..Len(raw) : raw[m] \in Range(inputCols) } }
       /\ \A i, j \in 1..Len(xcols) :
             i < j => IndexIn(names, xcols[i]) < IndexIn(names, xcols[j])

ScenarioColumns == << "IP_API_HOSTING", "IP_API_CITY_ENCODED", "IP_API_LATITUDE" >>

ScenarioInput(cols) ==
    Range(cols) \ { TrainExtract_TARGET } = { B1, C1, N1 }

\* C4: feature assembly gives the boolean columns in contract order, then the
\* categorical columns in contract order under the suffix "_ENCODED", then
\* the numeric columns in contract order, for every column order of the input
\* frame; from one boolean, one categorical and one numeric column it gives
\* [b1, c1_ENCODED, n1].
C4_AssemblyOrder ==
    /\ X_train # NoFrame =>
          /\ InContractOrder(X_train.cols, train_df.cols, Trainer_BOOLEAN_FEATURES,
                             Trainer_CATEGORICAL_FEATURES, Trainer_NUMERIC_FEATURES)
          /\ (ScenarioInput(train_df.cols) => X_train.cols = ScenarioColumns)
    /\ X_val # NoFrame =>
          /\ InContractOrder(X_val.cols, val_df.cols, Trainer_BOOLEAN_FEATURES,
                             Trainer_CATEGORICAL_FEATURES, Trainer_NUMERIC_FEATURES)
          /\ (ScenarioInput(val_df.cols) => X_val.cols = ScenarioColumns)
    /\ pdOut.X # NoFrame =>
          /\ InContractOrder(pdOut.X.cols, pdInput.cols, Predictor_BOOLEAN_FEATURES,
                             Predictor_CATEGORICAL_FEATURES, Predictor_NUMERIC_FEATURES)
          /\ (ScenarioInput(pdInput.cols) => pdOut.X.cols = ScenarioColumns)

\* predict_fn assembled [b1, c1_ENCODED, n1] from a frame that holds them as
\* [n1, c1, b1].
C4_Witness ==
    /\ pdInput.cols = << N1, C1, B1 >>
    /\ pdOut.X # NoFrame
    /\ pdOut.X.cols = ScenarioColumns

FeatureColumns(cols) ==
    Range(cols) \cap (BooleanColumns \cup CategoricalColumns \cup NumericColumns)

\* C5: the column order of the training matrix is persisted as feature_names,
\* and every frame later passed to the model (the validation frame, the frame
\* of every predict_fn call) has exactly these names in this order, whatever
\* the column order of the input.
C5_PersistedOrderReplayed ==
    /\ (X_val # NoFrame /\ FeatureColumns(val_df.cols) = FeatureColumns(train_df.cols))
          => X_val.cols = X_train.cols
    /\ trPc = "trained" => X_val.cols = X_train.cols
    /\ trPc = "saved" =>
          /\ Len(trFeatureNames) > 0
          /\ Trainer_features_file \in DOMAIN modelDir
          /\ JsonLoad(modelDir[Trainer_features_file]) = trFeatureNames
    /\ pdPc = "loaded" => pdFeatureNames = trFeatureNames
    /\ pdOut.dmatrix # NoFrame =>
          /\ pdOut.dmatrix.cols = trFeatureNames
          /\ \A i \in 1..Len(pdOut.predictions) :
                Len(pdOut.predictions[i]) = Len(trFeatureNames)

\* A request whose frame holds the features in another order, with one more
\* feature than the model was trained on, reaches the model in the persisted
\* order.
C5_Witness ==
    /\ pdInput.cols = << N2, N1, C1, B1 >>
    /\ pdOut.err = ""
    /\ pdOut.X.cols # trFeatureNames
    /\ pdOut.dmatrix.cols = trFeatureNames
    /\ trFeatureNames = ScenarioColumns

\* The raw columns the persisted feature names require of a request.
RequiredColumns(names) ==
    { c \in BooleanColumns \cup CategoricalColumns \cup NumericColumns :
        c \in Range(names) \/ Encoded(c) \in Range(names) }

\* C6: when the frame given to predict_fn lacks a column the persisted
\* feature_names require, predict_fn raises and returns no prediction; it
\* never scores with a filled-in or dropped column.
C6_MissingColumnRaises ==
    (pdOut # NoOutput /\ ~(RequiredColumns(pdFeatureNames) \subseteq Range(pdInput.cols)))
        => /\ pdOut.err \in { "ValueError", "KeyError" }
           /\ pdOut.predictions = << >>
           /\ pdOut.dmatrix = NoFrame

\* A request without the boolean column, and one without the categorical
\* column, of a model trained on both.
C6_Witness ==
    /\ B1 \in RequiredColumns(pdFeatureNames)
    /\ C1 \in RequiredColumns(pdFeatureNames)
    /\ pdInput.cols = << C1, N1 >>
    /\ pdOut.err = "KeyError"

\* The texts of column c of a frame, by row.
ColumnStrings(df, c) == [ i \in 1..Len(df.rows) |-> AsTypeStr(df.rows[i][c]) ]

Codes(X, c) == [ i \in 1..Len(X.rows) |-> X.rows[i][Encoded(c)].v ]

\* C7: a fitted encoder maps each string observed in a column at fit time to
\* the code learned for it, distinct observed strings of a column to distinct
\* codes, none of them -1, and every string not observed in that column to -1.
C7_EncoderApply ==
    /\ X_train # NoFrame =>
          \A c \in Range(Filter(Trainer_CATEGORICAL_FEATURES, Range(train_df.cols))) :
              LET seen == ColumnStrings(train_df, c)
                  code == Codes(X_train, c)
              IN /\ \A k \in 1..Len(seen) : code[k] # -1
                 /\ \A k, m \in 1..Len(seen) : (seen[k] = seen[m]) <=> (code[k] = code[m])
                 /\ (X_val # NoFrame /\ c \in Range(val_df.cols)) =>
                       \A i \in 1..Len(val_df.rows) :
                           LET x == ColumnStrings(val_df, c)[i]
                           IN IF x \in Range(seen)
                              THEN \A k \in 1..Len(seen) :
                                      seen[k] = x => Codes(X_val, c)[i] = code[k]
                              ELSE Codes(X_val, c)[i] = -1
    /\ pdOut.X # NoFrame =>
          \A j \in 1..Len(trEncoder.feature_names_in_) :
              LET c == trEncoder.feature_names_in_[j]
                  learned == trEncoder.categories_[j]
              IN c \in Range(pdInput.cols) =>
                    \A i \in 1..Len(pdInput.rows) :
                        LET x == ColumnStrings(pdInput, c)[i]
                            code == Codes(pdOut.X, c)[i]
                        IN IF x \in Range(learned)
                           THEN code # -1 /\ learned[code + 1] = x
                           ELSE code = -1

\* The validation frame holds a text seen at fit time in the first
\* categorical column but not in the second, and a text seen in neither.
C7_Witness ==
    /\ X_val # NoFrame
    /\ C2 \in Range(val_df.cols)
    /\ Cardinality(Range(ColumnStrings(train_df, C1))) = 2
    /\ \E i \in 1..Len(val_df.rows) :
          /\ ColumnStrings(val_df, C1)[i] = "US"
          /\ Codes(X_val, C1)[i] # -1
          /\ Codes(X_val, C2)[i] = -1
    /\ \E i \in 1..Len(val_df.rows) :
          /\ ColumnStrings(val_df, C1)[i] = "MX"
          /\ Codes(X_val, C1)[i] = -1

\* The encoder was fit on the texts `fit` and applied to the texts `apply`
\* of the first categorical column.
EncoderScenario(fit, apply) ==
    /\ X_val # NoFrame
    /\ ColumnStrings(train_df, C1) = fit
    /\ ColumnStrings(val_df, C1) = apply

\* C8 as stated: codes are given by order of first occurrence, so that a fit
\* on ["US","CA","US"] applied to ["US","CA","MX"] yields [0,1,-1].
C8_FirstOccurrenceCodes ==
    /\ X_train # NoFrame =>
          LET seen == ColumnStrings(train_df, C1)
          IN \A k \in 1..Len(seen) :
                Codes(X_train, C1)[k] =
                    LET first == CHOOSE n \in 1..k :
                                     seen[n] = seen[k] /\ \A m \in 1..(n - 1) : seen[m] # seen[k]
                    IN Cardinality({ seen[m] : m \in 1..(first - 1) })
    /\ EncoderScenario(<< "US", "CA", "US" >>, << "US", "CA", "MX" >>) =>
          Codes(X_val, C1) = << 0, 1, -1 >>

\* C8 amended: codes are given by the sorted order of the distinct observed
\* strings, so that a fit on ["US","CA","US"] applied to ["US","CA","MX"]
\* yields [1,0,-1].
C8_SortedCodes ==
    /\ X_train # NoFrame =>
          LET seen == ColumnStrings(train_df, C1)
          IN \A k \in 1..Len(seen) :
                Codes(X_train, C1)[k] =
                    Cardinality({ x \in Range(seen) : StrLess(x, seen[k]) })
    /\ EncoderScenario(<< "US", "CA", "US" >>, << "US", "CA", "MX" >>) =>
          Codes(X_val, C1) = << 1, 0, -1 >>

C8_Witness ==
    /\ EncoderScenario(<< "US", "CA", "US" >>, << "US", "CA", "MX" >>)
    /\ Codes(X_val, C1) = << 1, 0, -1 >>

\* C9: after save_model and model_fn the reloaded encoder maps every string
\* of every column to the code the saved encoder gives it, and the reloaded
\* feature_names is the saved list in the saved order.
C9_ArtifactsRoundTrip ==
    pdPc # "cold" =>
        /\ pdPc = "loaded"
        /\ pdFeatureNames = trFeatureNames
        /\ pdEncoder.fitted
        /\ pdEncoder.feature_names_in_ = trEncoder.feature_names_in_
        /\ \A j \in 1..Len(trEncoder.feature_names_in_) :
              \A x \in Range(SortedStrings) :
                  EncodeValue(pdEncoder.categories_[j], x, pdEncoder.unknown_value)
                    = EncodeValue(trEncoder.categories_[j], x, trEncoder.unknown_value)

\* Artifacts with a two-word vocabulary and three feature names were saved
\* and reloaded.
C9_Witness ==
    /\ pdPc = "loaded"
    /\ trFeatureNames = ScenarioColumns
    /\ pdFeatureNames = ScenarioColumns
    /\ pdEncoder.categories_ = << << "CA", "US" >> >>

\* The score the loaded model gives a parsed row: the model's function of the
\* row's feature values in the persisted order, a categorical feature
\* entering by the saved encoder's code of its text.
ScoreOf(row) ==
    [ k \in 1..Len(trFeatureNames) |->
        LET name == trFeatureNames[k]
        IN IF name \in DOMAIN row
           THEN row[name]
           ELSE LET j == CHOOSE m \in 1..Len(trEncoder.feature_names_in_) :
                             Encoded(trEncoder.feature_names_in_[m]) = name
                IN PyInt(EncodeValue(trEncoder.categories_[j],
                                     AsTypeStr(row[trEncoder.feature_names_in_[j]]),
                                     trEncoder.unknown_value)) ]

\* C14: for every request the predictor returns exactly one score per input
\* row, in input row order: predict_fn yields the score of the i-th row of the
\* parsed frame at position i, and output_fn emits these scores in the same
\* order, one per line for CSV or as one JSON array, adding and dropping none.
C14_OneScorePerRowInOrder ==
    /\ (pdOut # NoOutput /\ pdOut.err = "") =>
          /\ Len(pdOut.predictions) = Len(pdInput.rows)
          /\ \A i \in 1..Len(pdInput.rows) :
                pdOut.predictions[i] = ScoreOf(pdInput.rows[i])
    /\ (pdResponse # NoResponse /\ pdResponse.err = "") =>
          /\ Len(pdResponse.text.items) = Len(pdInput.rows)
          /\ pdResponse.accept \in { "text/csv", "*/*" } =>
                /\ pdResponse.text.kind = "lines"
                /\ \A i \in 1..Len(pdInput.rows) :
                      pdResponse.text.items[i] = PyStrOf(ScoreOf(pdInput.rows[i]))
          /\ pdResponse.accept = "application/json" =>
                /\ pdResponse.text.kind = "json"
                /\ \A i \in 1..Len(pdInput.rows) :
                      pdResponse.text.items[i] = ScoreOf(pdInput.rows[i])

\* A CSV response to a request of two rows with different scores.
C14_Witness ==
    /\ Len(pdInput.rows) = 2
    /\ pdResponse.err = ""
    /\ pdResponse.accept = "text/csv"
    /\ Len(pdResponse.text.items) = 2
    /\ ScoreOf(pdInput.rows[1]) # ScoreOf(pdInput.rows[2])

\* C15: input_fn raises for every content type other than text/csv and
\* application/json and returns no frame; output_fn raises for every accept
\* type it does not support and returns no text; nothing is predicted for a
\* request input_fn refused.
C15_UnknownTypesRaise ==
    /\ pdRequest # NoRequest =>
          IF pdRequest.content_type \in { "text/csv", "application/json" }
          THEN pdInput # NoFrame
          ELSE /\ pdInput = NoFrame
               /\ pdOut = NoOutput
               /\ pdResponse.err = "ValueError"
               /\ pdResponse.text = NoText
    /\ (pdResponse # NoResponse /\ pdResponse.accept # "") =>
          IF pdResponse.accept \in { "text/csv", "*/*", "application/json" }
          THEN pdResponse.err = "" /\ pdResponse.text # NoText
          ELSE pdResponse.err = "ValueError" /\ pdResponse.text = NoText

\* output_fn refused the accept type of a request whose two rows were parsed
\* and scored.
C15_Witness ==
    /\ pdRequest.content_type = "application/json"
    /\ Len(pdOut.predictions) = 2
    /\ pdResponse.accept = "application/xml"
    /\ pdResponse.err = "ValueError"

\* C19: applying a fitted encoder is idempotent and free of side effects.  A
\* step that calls prepare_features with fit=False, or predict_fn, leaves
\* the encoder's value-to-code mapping and the frame it was given as they
\* were, and applying the encoder left behind to the frame left behind gives
\* the codes of the first application.  Only the step that calls
\* prepare_features with fit=True turns an encoder without a vocabulary into
\* one with a vocabulary, and it leaves its frame as it was too.
C19_ApplyIsPure ==
    [][ /\ (trPc = "fitted" /\ trPc' # "fitted") =>
              /\ trEncoder'.categories_ = trEncoder.categories_
              /\ trEncoder'.feature_names_in_ = trEncoder.feature_names_in_
              /\ trEncoder.fitted /\ trEncoder'.fitted
              /\ val_df' = val_df
              /\ train_df' = train_df
              /\ X_val' # NoFrame =>
                    \A strict \in BOOLEAN :
                       LET again == prepare_features(val_df', trEncoder', FALSE, strict)
                       IN again.err = "" =>
                             /\ again.X = X_val'
                             /\ again.encoder = trEncoder'
                             /\ again.df = val_df'
        /\ (pdOut = NoOutput /\ pdOut' # NoOutput) =>
              /\ pdEncoder' = pdEncoder
              /\ pdInput' = pdInput
              /\ pdOut'.X # NoFrame =>
                    \A strict \in BOOLEAN :
                       LET again == predict_fn(pdInput', pdEncoder', pdFeatureNames', strict)
                       IN again.err = "" =>
                             /\ again.X = pdOut'.X
                             /\ again.encoder = pdEncoder'
                             /\ again.input_data = pdInput'
        /\ (trPc = "loaded" /\ trPc' # "loaded") =>
              /\ ~trEncoder.fitted
              /\ trPc' = "fitted" => trEncoder'.fitted
              /\ train_df' = train_df
              /\ val_df' = val_df
        /\ (trEncoder'.fitted /\ ~trEncoder.fitted) => trPc = "loaded"
      ]_vars

\* The encoder was applied to a validation frame holding a text it never saw:
\* the text got the code -1 and is still absent from the vocabulary, and the
\* frame still holds it as a text.
C19_Witness ==
    /\ trPc = "prepared"
    /\ trEncoder.fitted
    /\ \E i \in 1..Len(val_df.rows) :
          /\ val_df.rows[i][C1] = PyStr("MX")
          /\ Codes(X_val, C1)[i] = -1
          /\ \A j \in 1..Len(trEncoder.categories_) :
                "MX" \notin Range(trEncoder.categories_[j])

\* The frame the trainer reads from training files that hold the records of
\* a features file: every categorical cell is the cleaned text itself.
AsTrainingFrame(body, parsed) ==
    Frame(parsed.cols,
          [ i \in 1..Len(parsed.rows) |->
              [ c \in Range(parsed.cols) |->
                  IF c \in Range(Trainer_CATEGORICAL_FEATURES)
                  THEN PyStr(body.lines[i][IndexIn(feature_cols, c)])
                  ELSE parsed.rows[i][c] ] ])

\* C21: the predictor re-applies the encoding identically to the trainer.
\* Every cleaned categorical text of a record that travels through the
\* features file, input_fn and predict_fn gets the code prepare_features
\* gives, under the same encoder, to that text read from the training files.
C21_SameCodesAsTrainer ==
    (pdRequest.content_type = "text/csv" /\ pdOut.X # NoFrame) =>
        LET asTrained == prepare_features(AsTrainingFrame(pdRequest.body, pdInput),
                                          pdEncoder, FALSE, TRUE)
        IN /\ asTrained.err = ""
           /\ \A c \in Range(Trainer_CATEGORICAL_FEATURES) :
                 Codes(pdOut.X, c) = Codes(asTrained.X, c)

\* C22: the headerless features file and the CSV parser of the predictor
\* agree on column positions.  The file has no header, every line has one
\* field per feature, the k-th column the extractor writes is the feature
\* input_fn names as its k-th column, the cell input_fn files under that name
\* is read from the k-th field, and neither the ID column nor the target
\* column is among the columns written.
C22_PositionsAgree ==
    (pdRequest.content_type = "text/csv" /\ pdInput # NoFrame) =>
        /\ pdRequest.body.keys = << >>
        /\ Len(pdInput.cols) = Len(feature_cols)
        /\ \A i \in 1..Len(pdRequest.body.lines) :
              Len(pdRequest.body.lines[i]) = Len(feature_cols)
        /\ \A k \in 1..Len(feature_cols) :
              LET field == ReadCsvColumn([ j \in 1..Len(pdRequest.body.lines) |->
                                             pdRequest.body.lines[j][k] ])
              IN /\ pdInput.cols[k] = feature_cols[k]
                 /\ \A i \in 1..Len(pdInput.rows) :
                       pdInput.rows[i][feature_cols[k]] = field[i]
        /\ SampleIdColumn \notin Range(feature_cols)
        /\ InferExtract_TARGET \notin Range(feature_cols)
        /\ \A i \in 1..Len(pdRequest.body.lines) :
              \A k \in 1..Len(pdRequest.body.lines[i]) :
                 pdRequest.body.lines[i][k] # "r-1"

\* input_fn parsed a features file of two records whose first categorical
\* column holds different texts.
C22_Witness ==
    /\ pdRequest.content_type = "text/csv"
    /\ Len(pdRequest.body.lines) = 2
    /\ Len(pdInput.rows) = 2
    /\ pdInput.rows[1][C1] = PyStr("US")
    /\ pdInput.rows[2][C1] = PyNaN
    /\ pdRequest.body.lines[2][IndexIn(feature_cols, C1)] = "null"

\* =========================================================================
\* Training extractor: main of src/glue_scripts/extract_training_data.py
\* =========================================================================

\* ---- bounds of the source table ----
MaxTableRows == 3

\* test_size of build_preprocessing_sql, in hundredths (0.20).
test_size == 20

\* A source row: its target and the age of CREATED_AT in days.
SampleSourceRows ==
    { [ TARGET |-> SqlNum(1), age |-> 3 ],
      [ TARGET |-> SqlNum(1), age |-> 10 ],
      [ TARGET |-> SqlNull, age |-> 3 ] }

SampleDaysLimits == { 7, 30 }

\* Values RANDOM(seed) can give a row: a signed integer, not a fraction.
SampleSplitKeys == { -3, 0, 4 }

\* WHERE TARGET IS NOT NULL AND CREATED_AT >= DATEADD(day, -days_limit, today)
Eligible(row, days_limit) ==
    /\ ~IsNull(row.TARGET)
    /\ row.age <= days_limit

EligibleRows(table, days_limit) ==
    { i \in 1..Len(table) : Eligible(table[i], days_limit) }

\* CASE WHEN split_key < test_size THEN 'TEST' ELSE 'TRAIN' END
DataSplit(split_key) ==
    IF split_key * 100 < test_size THEN "TEST" ELSE "TRAIN"

\* One evaluation of the query: the eligible rows, by their position in the
\* source table, each with the label of the split key this evaluation gave it.
RunQuery(table, days_limit, split_keys) ==
    LET keep(i) == i \in EligibleRows(table, days_limit)
        RECURSIVE scan(_)
        scan(n) == IF n = 0 THEN << >>
                   ELSE IF keep(n)
                        THEN Append(scan(n - 1),
                                    [ row |-> n, DATA_SPLIT |-> DataSplit(split_keys[n]) ])
                        ELSE scan(n - 1)
    IN scan(Len(table))

\* df.filter(col("DATA_SPLIT") == label)
FilterSplit(result, label) ==
    SelectSeq(result, LAMBDA r : r.DATA_SPLIT = label)

\* .drop("DATA_SPLIT"): what is written is the rows themselves.
DropSplit(result) == [ i \in 1..Len(result) |-> result[i].row ]

\* The frame is lazy: every count and every write evaluates the query again,
\* and the warehouse gives no guarantee that a re-executed RANDOM(seed) gives
\* a row the key it gave it before. Each evaluation draws its own keys.
SplitKeys(table) == [ 1..Len(table) -> SampleSplitKeys ]

NotWritten == << >>

ExtractInit ==
    /\ exPc = "start"
    /\ exTable \in { t \in SeqsUpTo(SampleSourceRows, MaxTableRows) : Len(t) >= 1 }
    /\ exDaysLimit \in SampleDaysLimits
    /\ total_count = 0
    /\ train_count = 0
    /\ test_count = 0
    /\ exTrain = NotWritten
    /\ exTest = NotWritten
    /\ exLog = << >>

\* The extractor at rest while another component runs.
ExtractIdle ==
    /\ exPc = "off"
    /\ exTable = << >>
    /\ exDaysLimit = 0
    /\ total_count = 0
    /\ train_count = 0
    /\ test_count = 0
    /\ exTrain = NotWritten
    /\ exTest = NotWritten
    /\ exLog = << >>

\* total_count = df.count()
ExtractCountTotal ==
    /\ exPc = "start"
    /\ \E keys \in SplitKeys(exTable) :
          total_count' = Len(RunQuery(exTable, exDaysLimit, keys))
    /\ exPc' = "total_counted"
    /\ UNCHANGED << exTable, exDaysLimit, train_count, test_count, exTrain, exTest, exLog >>
    /\ UNCHANGED notExtract

\* train_count = df.filter(col("DATA_SPLIT") == "TRAIN").count()
ExtractCountTrain ==
    /\ exPc = "total_counted"
    /\ \E keys \in SplitKeys(exTable) :
          train_count' = Len(FilterSplit(RunQuery(exTable, exDaysLimit, keys), "TRAIN"))
    /\ exPc' = "train_counted"
    /\ UNCHANGED << exTable, exDaysLimit, total_count, test_count, exTrain, exTest, exLog >>
    /\ UNCHANGED notExtract

\* test_count = df.filter(col("DATA_SPLIT") == "TEST").count(), and the
\* prints that follow the counts
ExtractCountTest ==
    /\ exPc = "train_counted"
    /\ \E keys \in SplitKeys(exTable) :
          test_count' = Len(FilterSplit(RunQuery(exTable, exDaysLimit, keys), "TEST"))
    /\ exLog' = exLog \o << "Total records", "Train records", "Test records",
                            "Writing to" >>
    /\ exPc' = "counted"
    /\ UNCHANGED << exTable, exDaysLimit, total_count, train_count, exTrain, exTest >>
    /\ UNCHANGED notExtract

\* df.filter(TRAIN).drop("DATA_SPLIT").write.mode("overwrite").parquet(train)
ExtractWriteTrain ==
    /\ exPc = "counted"
    /\ \E keys \in SplitKeys(exTable) :
          exTrain' = DropSplit(FilterSplit(RunQuery(exTable, exDaysLimit, keys), "TRAIN"))
    /\ exPc' = "train_written"
    /\ UNCHANGED << exTable, exDaysLimit, total_count, train_count, test_count, exTest, exLog >>
    /\ UNCHANGED notExtract

\* df.filter(TEST).drop("DATA_SPLIT").write.mode("overwrite").parquet(test)
ExtractWriteTest ==
    /\ exPc = "train_written"
    /\ \E keys \in SplitKeys(exTable) :
          exTest' = DropSplit(FilterSplit(RunQuery(exTable, exDaysLimit, keys), "TEST"))
    /\ exPc' = "test_written"
    /\ UNCHANGED << exTable, exDaysLimit, total_count, train_count, test_count, exTrain, exLog >>
    /\ UNCHANGED notExtract

\* The closing print and job.commit()
ExtractCommit ==
    /\ exPc = "test_written"
    /\ exLog' = Append(exLog, "Training data extraction complete!")
    /\ exPc' = "committed"
    /\ UNCHANGED << exTable, exDaysLimit, total_count, train_count, test_count,
                    exTrain, exTest >>
    /\ UNCHANGED notExtract

\* The warnings the two extractors can print.
WarningMessages == { "WARNING: No records found for yesterday. Exiting." }

\* C16: when the extraction returns zero rows the job is not a failure: it
\* logs a warning, commits the job and completes with empty output.
C16_ZeroRowsWarnsAndCommits ==
    (exPc = "committed" /\ total_count = 0) =>
        /\ \E i \in 1..Len(exLog) : exLog[i] \in WarningMessages
        /\ exTrain = << >>
        /\ exTest = << >>

\* C10: the two outputs partition the eligible rows: every eligible row is in
\* exactly one of train/ and test/, none in both, none in neither, and the two
\* sizes sum to the number of eligible rows, although the query is evaluated
\* separately for the counts and for each write.
C10_OutputsPartitionEligible ==
    exPc \in { "test_written", "committed" } =>
        LET eligible == EligibleRows(exTable, exDaysLimit)
        IN /\ Range(exTrain) \cup Range(exTest) = eligible
           /\ Range(exTrain) \cap Range(exTest) = { }
           /\ Len(exTrain) + Len(exTest) = Cardinality(eligible)

\* =========================================================================
\* The training query with its split key: build_preprocessing_sql, lines
\* 177-192, evaluated by the warehouse
\* =========================================================================

\* ---- bounds of the table the query is evaluated on ----
MaxSplitRows == 2

SampleSplitRows ==
    { [ TARGET |-> SqlNum(0), age |-> 3 ],
      [ TARGET |-> SqlNum(1), age |-> 3 ],
      [ TARGET |-> SqlNull, age |-> 3 ],
      [ TARGET |-> SqlNum(1), age |-> 10 ] }

\* WITH cleaned_data AS (SELECT ..., TARGET, RANDOM(seed) AS split_key
\* FROM source WHERE ...): the eligible rows, each with its target and the
\* key this evaluation gave it.
CleanedData(table, days_limit, split_keys) ==
    LET RECURSIVE scan(_)
        scan(n) == IF n = 0 THEN << >>
                   ELSE IF Eligible(table[n], days_limit)
                        THEN Append(scan(n - 1),
                                    [ row |-> n, TARGET |-> table[n].TARGET,
                                      split_key |-> split_keys[n] ])
                        ELSE scan(n - 1)
    IN scan(Len(table))

\* The CASE of the outer SELECT on one row of cleaned_data.
SplitCaseByTarget(r) ==
    IF r.TARGET = SqlNum(1) THEN "TEST" ELSE DataSplit(r.split_key)

SplitCase(r) == DataSplit(r.split_key)

\* SELECT *, CASE ... END AS DATA_SPLIT FROM cleaned_data
SelectWithSplit(cleaned) ==
    [ i \in 1..Len(cleaned) |->
        [ row |-> cleaned[i].row, TARGET |-> cleaned[i].TARGET,
          split_key |-> cleaned[i].split_key, DATA_SPLIT |-> SplitCase(cleaned[i]) ] ]

EvaluateQuery(table, days_limit, split_keys) ==
    SelectWithSplit(CleanedData(table, days_limit, split_keys))

SplitInit ==
    /\ sqPc = "idle"
    /\ sqTable = << >>
    /\ sqDaysLimit = 0
    /\ sqFirst = << >>
    /\ sqSecond = << >>

\* The source table and the job's DAYS_LIMIT.
SplitStart ==
    /\ sqPc = "idle"
    /\ sqTable' \in SeqsUpTo(SampleSplitRows, MaxSplitRows)
    /\ sqDaysLimit' \in SampleDaysLimits
    /\ sqPc' = "ready"
    /\ UNCHANGED << sqFirst, sqSecond >>
    /\ UNCHANGED notSplit

\* One evaluation of the query.
SplitEvaluate ==
    /\ sqPc = "ready"
    /\ \E keys \in SplitKeys(sqTable) :
          sqFirst' = EvaluateQuery(sqTable, sqDaysLimit, keys)
    /\ sqPc' = "once"
    /\ UNCHANGED << sqTable, sqDaysLimit, sqSecond >>
    /\ UNCHANGED notSplit

\* Another evaluation of the same query on the same table: a later action on
\* the lazy frame, or a later run with the same seed.
SplitEvaluateAgain ==
    /\ sqPc = "once"
    /\ \E keys \in SplitKeys(sqTable) :
          sqSecond' = EvaluateQuery(sqTable, sqDaysLimit, keys)
    /\ sqPc' = "twice"
    /\ UNCHANGED << sqTable, sqDaysLimit, sqFirst >>
    /\ UNCHANGED notSplit

\* C11: the split key of every row is a draw in [0,1), and the row is
\* labelled TEST exactly when its draw is below the test fraction 0.20 and
\* TRAIN otherwise.
C11_DrawInUnitInterval ==
    \A r \in Range(sqFirst) \cup Range(sqSecond) :
        /\ 0 <= r.split_key
        /\ r.split_key < 1
        /\ (r.DATA_SPLIT = "TEST") <=> (r.split_key * 100 < test_size)
        /\ (r.DATA_SPLIT = "TRAIN") <=> ~(r.split_key * 100 < test_size)

\* C12: for a fixed seed and a fixed table, two evaluations of the query give
\* every row the same TRAIN/TEST label.
C12_SplitReproducible ==
    sqPc = "twice" =>
        /\ Len(sqSecond) = Len(sqFirst)
        /\ \A i \in 1..Len(sqFirst) :
              /\ sqSecond[i].row = sqFirst[i].row
              /\ sqSecond[i].DATA_SPLIT = sqFirst[i].DATA_SPLIT

\* =========================================================================
\* Inference extractor: main of src/glue_scripts/extract_inference_data.py
\* =========================================================================

\* ---- bounds of the runs and of the source table ----
MaxInferRows == 2
MaxInferRuns == 2

\* Warehouse records: the ID column, the age of CREATED_AT in days and one
\* feature, different in every record.
SampleWarehouseRecords ==
    { [ id |-> "u1", day |-> 1, x |-> 11 ],
      [ id |-> "u2", day |-> 1, x |-> 12 ],
      [ id |-> "u3", day |-> 1, x |-> 13 ],
      [ id |-> "u4", day |-> 2, x |-> 14 ] }

SampleTables ==
    { t \in SUBSET SampleWarehouseRecords : Cardinality(t) <= MaxInferRows }

\* WHERE DATE(CREATED_AT) = DATEADD(day, -1, CURRENT_DATE())
Yesterday(table) == { r \in table : r.day = 1 }

\* The orders in which an evaluation of the query can return the rows: the
\* query has no ORDER BY.
Orders(rows) ==
    { o \in [ 1..Cardinality(rows) -> rows ] : Range(o) = rows }

\* df.select(id_column), df.select(feature_cols) and df itself on the rows
\* of one evaluation.
SelectIds(rows) == [ i \in 1..Len(rows) |-> rows[i].id ]

SelectFeatures(rows) == [ i \in 1..Len(rows) |-> rows[i].x ]

SelectAll(rows) == [ i \in 1..Len(rows) |-> [ id |-> rows[i].id, x |-> rows[i].x ] ]

\* One output directory of the dated location.
Absent == [ exists |-> FALSE, rows |-> << >> ]

Overwrite(rows) == [ exists |-> TRUE, rows |-> rows ]

InferInit ==
    /\ ixPc = "idle"
    /\ ixTable = { }
    /\ ixRuns = 0
    /\ ixCount = 0
    /\ ixLog = << >>
    /\ ixIds = Absent
    /\ ixFeatures = Absent
    /\ ixComplete = Absent

\* A run starts: the source table as it is when the job runs.
InferStart ==
    /\ ixPc \in { "idle", "committed" }
    /\ ixRuns < MaxInferRuns
    /\ ixRuns' = ixRuns + 1
    /\ ixTable' \in SampleTables
    /\ ixCount' = 0
    /\ ixLog' = << >>
    /\ ixPc' = "started"
    /\ UNCHANGED << ixIds, ixFeatures, ixComplete >>
    /\ UNCHANGED notInfer

\* record_count = df.count(); with no record: warning, job.commit(), return.
InferCount ==
    /\ ixPc = "started"
    /\ \E rows \in Orders(Yesterday(ixTable)) :
          /\ ixCount' = Len(rows)
          /\ IF Len(rows) = 0
             THEN /\ ixLog' = << "Records to score",
                                 "WARNING: No records found for yesterday. Exiting." >>
                  /\ ixPc' = "committed"
             ELSE /\ ixLog' = << "Records to score" >>
                  /\ ixPc' = "counted"
    /\ UNCHANGED << ixTable, ixRuns, ixIds, ixFeatures, ixComplete >>
    /\ UNCHANGED notInfer

\* df.select(id_column).write.mode("overwrite").csv(ids)
InferWriteIds ==
    /\ ixPc = "counted"
    /\ \E rows \in Orders(Yesterday(ixTable)) :
          ixIds' = Overwrite(SelectIds(rows))
    /\ ixLog' = Append(ixLog, "Writing to")
    /\ ixPc' = "ids_written"
    /\ UNCHANGED << ixTable, ixRuns, ixCount, ixFeatures, ixComplete >>
    /\ UNCHANGED notInfer

\* df.select(feature_cols).write.mode("overwrite").csv(features)
InferWriteFeatures ==
    /\ ixPc = "ids_written"
    /\ \E rows \in Orders(Yesterday(ixTable)) :
          ixFeatures' = Overwrite(SelectFeatures(rows))
    /\ ixPc' = "features_written"
    /\ UNCHANGED << ixTable, ixRuns, ixCount, ixLog, ixIds, ixComplete >>
    /\ UNCHANGED notInfer

\* df.write.mode("overwrite").parquet(complete)
InferWriteComplete ==
    /\ ixPc = "features_written"
    /\ \E rows \in Orders(Yesterday(ixTable)) :
          ixComplete' = Overwrite(SelectAll(rows))
    /\ ixPc' = "complete_written"
    /\ UNCHANGED << ixTable, ixRuns, ixCount, ixLog, ixIds, ixFeatures >>
    /\ UNCHANGED notInfer

\* The closing prints and job.commit()
InferCommit ==
    /\ ixPc = "complete_written"
    /\ ixLog' = Append(ixLog, "Inference data extraction complete!")
    /\ ixPc' = "committed"
    /\ UNCHANGED << ixTable, ixRuns, ixCount, ixIds, ixFeatures, ixComplete >>
    /\ UNCHANGED notInfer

\* C13: the ids output and the features output of a run are row-aligned: they
\* hold the same number of rows, and for every i the i-th ID and the i-th
\* feature row come from the same warehouse record.
C13_IdsFeaturesAligned ==
    ixPc \in { "features_written", "complete_written" } =>
        /\ Len(ixIds.rows) = Len(ixFeatures.rows)
        /\ \A i \in 1..Len(ixIds.rows) :
              \E r \in ixTable :
                  r.id = ixIds.rows[i] /\ r.x = ixFeatures.rows[i]

\* C18: after any sequence of runs with the same output date, the ids, the
\* features and the complete output at the dated location all hold the result
\* of the most recent run, and nothing written by an earlier run remains.
C18_LocationHoldsLatestRun ==
    ixPc = "committed" =>
        LET latest == Yesterday(ixTable)
        IN /\ Len(ixIds.rows) = Cardinality(latest)
           /\ Range(ixIds.rows) = { r.id : r \in latest }
           /\ Len(ixFeatures.rows) = Cardinality(latest)
           /\ Range(ixFeatures.rows) = { r.x : r \in latest }
           /\ Len(ixComplete.rows) = Cardinality(latest)
           /\ Range(ixComplete.rows) = { [ id |-> r.id, x |-> r.x ] : r \in latest }

\* C20: the split decision has no access to the target.  Two result rows
\* with the same draw carry the same TRAIN/TEST label whatever their targets
\* are, within one evaluation of the query or across two, and the label of a
\* row is the one its draw alone gives.  The target column is never a column
\* of a feature matrix prepare_features returns, of the persisted feature
\* order, or of the matrix predict_fn builds.
C20_SplitIgnoresTarget ==
    /\ \A a \in Range(sqFirst) \cup Range(sqSecond) :
          /\ a.DATA_SPLIT = DataSplit(a.split_key)
          /\ \A b \in Range(sqFirst) \cup Range(sqSecond) :
                a.split_key = b.split_key => a.DATA_SPLIT = b.DATA_SPLIT
    /\ X_train # NoFrame => Trainer_TARGET \notin Range(X_train.cols)
    /\ X_val # NoFrame => Trainer_TARGET \notin Range(X_val.cols)
    /\ Trainer_TARGET \notin Range(trFeatureNames)
    /\ pdOut.X # NoFrame => Trainer_TARGET \notin Range(pdOut.X.cols)

\* One evaluation labelled two eligible rows of the same age, one with
\* target 0 and one with target 1, that drew the same key.
C20_Witness ==
    /\ sqPc \in { "once", "twice" }
    /\ \E i, j \in 1..Len(sqFirst) :
          /\ sqTable[sqFirst[i].row].age = sqTable[sqFirst[j].row].age
          /\ sqFirst[i].TARGET = SqlNum(0)
          /\ sqFirst[j].TARGET = SqlNum(1)
          /\ sqFirst[i].split_key = sqFirst[j].split_key
          /\ sqFirst[i].DATA_SPLIT = sqFirst[j].DATA_SPLIT

\* =========================================================================
\* The dated location: where the inference extractor writes the IDs and
\* where the score loader reads them
\* =========================================================================

\* ---- bounds of the clock and of the job arguments ----
MaxClockDay == 3

\* A wall-clock time: the day of the month and the hour.
SampleHours == { 1, 12, 23 }
ClockTimes == [ day : 2..MaxClockDay, hour : SampleHours ]

NotBefore(t, u) == t.day > u.day \/ (t.day = u.day /\ t.hour >= u.hour)

SampleBucket == "fraud-ml"
SampleExtractorPrefixes == { "inference/input", "scoring/input" }
SampleLoaderPrefixes == { "inference/output", "scoring/output" }

\* strftime("%Y-%m-%d") of a day of the sampled month.
DateText(day) == "2024-03-" \o (IF day < 10 THEN "0" ELSE "") \o NumberText(day)

\* (datetime.now() - timedelta(days=1)).strftime("%Y-%m-%d")
YesterdayText(now) == DateText(now.day - 1)

\* DATEADD(day, -1, CURRENT_DATE()) when the warehouse evaluates the query.
RecordsDate(now) == DateText(now.day - 1)

\* extract_inference_data.py lines 259 and 268.
ExtractorOutputPath(args, yesterday) ==
    "s3://" \o args.S3_BUCKET \o "/" \o args.S3_PREFIX \o "/" \o yesterday

ExtractorIdsPath(output_path) == output_path \o "/ids"

\* load_scores_to_snowflake.py line 84.
LoaderIdsPath(args, yesterday) ==
    "s3://" \o args.S3_BUCKET \o "/inference/input/" \o yesterday \o "/ids"

\* load_scores_to_snowflake.py line 92.
LoaderPredictionsPath(args, yesterday) ==
    "s3://" \o args.S3_BUCKET \o "/" \o args.S3_PREFIX \o "/" \o yesterday

NoExtractorRun ==
    [ args |-> [ S3_BUCKET |-> "", S3_PREFIX |-> "" ], queried_at |-> [ day |-> 0, hour |-> 0 ],
      records_date |-> "", written_at |-> [ day |-> 0, hour |-> 0 ],
      output_path |-> "", ids_path |-> "" ]

NoLoaderRun ==
    [ args |-> [ S3_BUCKET |-> "", S3_PREFIX |-> "" ], read_at |-> [ day |-> 0, hour |-> 0 ],
      ids_path |-> "", predictions_path |-> "", SCORE_DATE |-> "" ]

DatedInit ==
    /\ dtPc = "idle"
    /\ dtExtractor = NoExtractorRun
    /\ dtLoader = NoLoaderRun

\* The extractor starts with its arguments and the warehouse evaluates the
\* query: the records of the day before the current date are extracted.
DatedQuery ==
    /\ dtPc = "idle"
    /\ \E prefix \in SampleExtractorPrefixes, now \in ClockTimes :
          dtExtractor' = [ NoExtractorRun EXCEPT
                             !.args = [ S3_BUCKET |-> SampleBucket, S3_PREFIX |-> prefix ],
                             !.queried_at = now,
                             !.records_date = RecordsDate(now) ]
    /\ dtPc' = "queried"
    /\ UNCHANGED dtLoader
    /\ UNCHANGED notDated

\* Lines 258-268: the extractor reads its clock, at the time of the query or
\* later, and writes the IDs under the dated location.
DatedWrite ==
    /\ dtPc = "queried"
    /\ \E now \in ClockTimes :
          /\ NotBefore(now, dtExtractor.queried_at)
          /\ LET output_path == ExtractorOutputPath(dtExtractor.args, YesterdayText(now))
             IN dtExtractor' = [ dtExtractor EXCEPT
                                   !.written_at = now,
                                   !.output_path = output_path,
                                   !.ids_path = ExtractorIdsPath(output_path) ]
    /\ dtPc' = "written"
    /\ UNCHANGED dtLoader
    /\ UNCHANGED notDated

\* Lines 81-92 and 118 of the loader, run after the extractor and the batch
\* transform: it reads its clock and computes its paths and the score date.
DatedLoad ==
    /\ dtPc = "written"
    /\ \E prefix \in SampleLoaderPrefixes, now \in ClockTimes :
          /\ NotBefore(now, dtExtractor.written_at)
          /\ LET args == [ S3_BUCKET |-> SampleBucket, S3_PREFIX |-> prefix ]
                 yesterday == YesterdayText(now)
             IN dtLoader' = [ args |-> args,
                              read_at |-> now,
                              ids_path |-> LoaderIdsPath(args, yesterday),
                              predictions_path |-> LoaderPredictionsPath(args, yesterday),
                              SCORE_DATE |-> yesterday ]
    /\ dtPc' = "loaded"
    /\ UNCHANGED dtExtractor
    /\ UNCHANGED notDated

\* C23: the score loader reads the IDs from the location where the inference
\* extractor wrote them for the same score date.  For every S3_PREFIX given
\* to the extractor and every pair of times at which the two jobs run, the
\* loader's ids path is the extractor's ids output path, and the SCORE_DATE
\* written is the date of the records that were extracted.
C23_LoaderReadsExtractorIds ==
    dtPc = "loaded" =>
        /\ dtLoader.ids_path = dtExtractor.ids_path
        /\ dtLoader.SCORE_DATE = dtExtractor.records_date

\* =========================================================================
\* Specifications: one per component, the others at rest
\* =========================================================================

LoaderNext ==
    \/ LoaderStart
    \/ LoaderRead
    \/ LoaderJoin
    \/ LoaderWrite

InitLoader == LoaderInit /\ CleanIdle /\ ModelIdle /\ ExtractIdle /\ SplitInit /\ InferInit /\ DatedInit

SpecLoader == InitLoader /\ [][LoaderNext]_vars

CleanNext ==
    \/ CleanTraining
    \/ CleanInference

InitClean == CleanInit /\ LoaderInit /\ ModelIdle /\ ExtractIdle /\ SplitInit /\ InferInit /\ DatedInit

SpecClean == InitClean /\ [][CleanNext]_vars

ModelNext ==
    \/ TrainerLoad
    \/ TrainerFit
    \/ TrainerApply
    \/ TrainerTrain
    \/ TrainerSave
    \/ ModelFn
    \/ InputFn
    \/ PredictFn
    \/ OutputFn
    \/ EndRequest

InitModel == TrainerInit /\ PredictorInit /\ LoaderInit /\ CleanIdle /\ ExtractIdle /\ SplitInit /\ InferInit /\ DatedInit

SpecModel == InitModel /\ [][ModelNext]_vars

ExtractNext ==
    \/ ExtractCountTotal
    \/ ExtractCountTrain
    \/ ExtractCountTest
    \/ ExtractWriteTrain
    \/ ExtractWriteTest
    \/ ExtractCommit

InitExtract == ExtractInit /\ LoaderInit /\ CleanIdle /\ ModelIdle /\ SplitInit /\ InferInit /\ DatedInit

SpecExtract == InitExtract /\ [][ExtractNext]_vars

SplitNext ==
    \/ SplitStart
    \/ SplitEvaluate
    \/ SplitEvaluateAgain

InitSplit == SplitInit /\ LoaderInit /\ CleanIdle /\ ModelIdle /\ ExtractIdle /\ InferInit /\ DatedInit

SpecSplit == InitSplit /\ [][SplitNext]_vars

InferNext ==
    \/ InferStart
    \/ InferCount
    \/ InferWriteIds
    \/ InferWriteFeatures
    \/ InferWriteComplete
    \/ InferCommit

InitInfer ==
    InferInit /\ LoaderInit /\ CleanIdle /\ ModelIdle /\ ExtractIdle /\ SplitInit /\ DatedInit

SpecInfer == InitInfer /\ [][InferNext]_vars

\* The split query and the trainer with the predictor, for the properties
\* that span both.  The extractor job and the training job are separate
\* processes that share no variable, so a behaviour runs one of them from
\* the initial state: the first step of either is taken only while the other
\* is at rest.
SplitAndModelNext ==
    \/ ModelIdle /\ SplitStart
    \/ SplitEvaluate
    \/ SplitEvaluateAgain
    \/ SplitInit /\ TrainerLoad
    \/ TrainerFit
    \/ TrainerApply
    \/ TrainerTrain
    \/ TrainerSave
    \/ ModelFn
    \/ InputFn
    \/ PredictFn
    \/ OutputFn
    \/ EndRequest

InitSplitAndModel ==
    SplitInit /\ ModelIdle /\ LoaderInit /\ CleanIdle /\ ExtractIdle /\ InferInit /\ DatedInit

SpecSplitAndModel == InitSplitAndModel /\ [][SplitAndModelNext]_vars

\* The trainer on the cleaned training files and the predictor on the
\* features file of the inference extractor, up to the scoring of a request.
EncodeNext ==
    \/ TrainerLoadCleaned
    \/ TrainerFit
    \/ TrainerApply
    \/ TrainerTrain
    \/ TrainerSave
    \/ ModelFn
    \/ InputFnExtracted
    \/ PredictFn

InitEncode ==
    ModelIdle /\ LoaderInit /\ CleanIdle /\ ExtractIdle /\ SplitInit /\ InferInit /\ DatedInit

SpecEncode == InitEncode /\ [][EncodeNext]_vars

\* A nightly run: the inference extractor, then the score loader.
DatedNext ==
    \/ DatedQuery
    \/ DatedWrite
    \/ DatedLoad

InitDated ==
    DatedInit /\ LoaderInit /\ CleanIdle /\ ModelIdle /\ ExtractIdle /\ SplitInit /\ InferInit

SpecDated == InitDated /\ [][DatedNext]_vars

====
